---- MODULE Spec2Model ----
(***************************************************************************)
(* A model of the ISO 8583 codec of mkadit/iso8583: the BitmapManager, the *)
(* Message field container and the Message Unpack / Pack pipeline under a  *)
(* CompiledPackager.                                                       *)
(*                                                                         *)
(* Bytes are the integers 0..255; a []byte is a sequence of bytes.  ASCII  *)
(* codes used below: '0'..'9' = 48..57, 'A'..'F' = 65..70, 'a'..'f' =      *)
(* 97..102, ' ' = 32.                                                      *)
(***************************************************************************)
EXTENDS Integers, Sequences, FiniteSets, TLC

VARIABLES
    bm,        \* the BitmapManager under test
    bmWire,    \* the bytes last written by PackBitmap, with their encoding
    bmBack,    \* the result of UnpackBitmap of bmWire into a fresh manager
    bmPc,      \* position of the bitmap scenario
    msg,       \* the Message under test
    data,      \* the buffer handed to Unpack
    res,       \* the outcome of the last SetMTI, SetField or Unpack on msg
    got,       \* the outcome of the last GetString or GetBytes on msg
    packed,    \* the outcome of Pack of msg
    back,      \* the outcome of Unpack of the packed bytes into a new Message
    steps,     \* the number of SetField calls made on msg
    pc,        \* position of the message scenario
    liConfig,  \* the LengthIndicatorConfig under test
    liWire,    \* the outcome of WriteLengthIndicator, with its arguments
    liBuf,     \* the bytes handed to ReadLengthIndicator
    liBack,    \* the outcome of ReadLengthIndicator
    liPc,      \* position of the length indicator scenario
    fieldMaps, \* the map[int]FieldConfig objects, by name
    cp,        \* the CompiledPackager under test, with its validator
    svMsg,     \* the Message handed to Validate
    svRes,     \* the outcome of the last Validate
    svOp,      \* the last operation of the schema scenario
    mu,        \* the sync.RWMutex of the CompiledValidator shared by the calls
    calls,     \* for each goroutine, its call on the validator and its position
    nRules,    \* len(cv.globalRules)
    tlvParser, \* the TLVParser under test
    tlvIn,     \* the elements parsed from, or handed to, the parser, with the input
    tlvOut,    \* the outcome of PackTLV
    tlvBack,   \* the outcome of ParseTLV of the packed bytes
    tlvPc,     \* position of the TLV scenario
    buffers,   \* the caller's byte slices handed to Unpack and SetField, in order
    backing,   \* for each field of msg, the storage its data is a slice of
    cloneBacking, \* the same for the fields of the clone
    cloned,    \* whether Clone has been called
    messagePool, \* the Messages in the sync.Pool
    messages,  \* the Message objects allocated so far, by identity
    workers,   \* for each input a goroutine was started for, its position and its Message
    semaphore, \* the number of slots taken of the semaphore channel
    results,   \* the results slice of ProcessBatch
    errors,    \* the errors slice of ProcessBatch
    batch      \* the call of ProcessBatch: its arguments, its position and what it returned

bmVars == <<bm, bmWire, bmBack, bmPc>>
msgVars == <<msg, data, res, got, packed, back, steps, pc>>
liVars == <<liConfig, liWire, liBuf, liBack, liPc>>
svVars == <<fieldMaps, cp, svMsg, svRes, svOp>>
cvVars == <<mu, calls, nRules>>
tlvVars == <<tlvParser, tlvIn, tlvOut, tlvBack, tlvPc>>
memVars == <<buffers, backing, cloneBacking, cloned>>
pbVars == <<messagePool, messages, workers, semaphore, results, errors, batch>>
vars == <<bm, bmWire, bmBack, bmPc, msg, data, res, got, packed, back, steps, pc,
          liConfig, liWire, liBuf, liBack, liPc,
          fieldMaps, cp, svMsg, svRes, svOp,
          mu, calls, nRules,
          tlvParser, tlvIn, tlvOut, tlvBack, tlvPc,
          buffers, backing, cloneBacking, cloned,
          messagePool, messages, workers, semaphore, results, errors, batch>>

\* the variables outside the bitmap scenario, and those outside the message
\* scenarios
notBmVars == <<msgVars, liVars, svVars, cvVars, tlvVars, memVars, pbVars>>
notMsgVars == <<bmVars, liVars, svVars, cvVars, tlvVars, memVars, pbVars>>
notLiVars == <<bmVars, msgVars, svVars, cvVars, tlvVars, memVars, pbVars>>
notSvVars == <<bmVars, msgVars, liVars, cvVars, tlvVars, memVars, pbVars>>
notCvVars == <<bmVars, msgVars, liVars, svVars, tlvVars, memVars, pbVars>>
notTlvVars == <<bmVars, msgVars, liVars, svVars, cvVars, memVars, pbVars>>
notMemVars == <<bmVars, msgVars, liVars, svVars, cvVars, tlvVars, pbVars>>
notLcVars == <<bmVars, liVars, svVars, cvVars, tlvVars, pbVars>>
notBatchVars == <<bmVars, msgVars, liVars, svVars, cvVars, tlvVars, memVars>>

-----------------------------------------------------------------------------
(* Program constants (types.go).                                           *)

MaxFieldNumber == 128
BitmapSize == 8
SecondaryBitmapSize == 8
DefaultBufferSize == 8192

\* BitmapEncoding
BitmapEncodingBinary == "BitmapEncodingBinary"
BitmapEncodingHex == "BitmapEncodingHex"

\* the nil error
Nil == "nil"

-----------------------------------------------------------------------------
(* Byte arithmetic: Go's operators on uint8.                               *)

Pow2(k) == 2 ^ k

\* b & (1 << k) != 0
TestBit(b, k) == (b \div Pow2(k)) % 2 = 1

\* b |= (1 << k)
OrBit(b, k) == IF TestBit(b, k) THEN b ELSE b + Pow2(k)

\* b &^= (1 << k)
AndNotBit(b, k) == IF TestBit(b, k) THEN b - Pow2(k) ELSE b

\* s[from:to] of Go (0-based, half open) on a 1-based sequence
Slice(s, from, to) == SubSeq(s, from + 1, to)

Zeros(n) == [i \in 1..n |-> 0]

-----------------------------------------------------------------------------
(* Hex helpers.                                                            *)

\* hexTableUpper[v] for a nibble v
hexTableUpper(v) == IF v < 10 THEN 48 + v ELSE 55 + v

\* encodeHexUpper(dst, src): the 2*len(src) bytes written to dst
encodeHexUpper(src) ==
    [i \in 1..(2 * Len(src)) |->
        IF i % 2 = 1 THEN hexTableUpper(src[(i + 1) \div 2] \div 16)
                     ELSE hexTableUpper(src[i \div 2] % 16)]

\* encoding/hex: the value of a hex digit, 16 when the byte is no hex digit
fromHexChar(c) ==
    IF c >= 48 /\ c <= 57 THEN c - 48
    ELSE IF c >= 65 /\ c <= 70 THEN c - 55
    ELSE IF c >= 97 /\ c <= 102 THEN c - 87
    ELSE 16

\* encoding/hex Decode(dst, src) for len(src) even: bytes are stored in dst
\* pair by pair and the first bad digit stops the decoding, leaving the bytes
\* already stored in dst.
RECURSIVE hexDecodeFrom(_, _, _)
hexDecodeFrom(dst, src, i) ==
    IF 2 * i > Len(src) THEN [dst |-> dst, ok |-> TRUE]
    ELSE LET a == fromHexChar(src[2 * i - 1])
             b == fromHexChar(src[2 * i])
         IN IF a > 15 \/ b > 15 THEN [dst |-> dst, ok |-> FALSE]
            ELSE hexDecodeFrom([dst EXCEPT ![i] = a * 16 + b], src, i + 1)

hexDecode(dst, src) == hexDecodeFrom(dst, src, 1)

-----------------------------------------------------------------------------
(* BitmapManager.                                                          *)

NewBitmapManager ==
    [primary |-> Zeros(BitmapSize), secondary |-> Zeros(SecondaryBitmapSize),
     hasSecondary |-> FALSE]

byteIndexOf(fieldNum) == (fieldNum - 1) \div 8
bitIndexOf(fieldNum) == 7 - ((fieldNum - 1) % 8)

\* BitmapManager.SetField: the manager after the call and the error
BitmapManager_SetField(b, fieldNum) ==
    IF fieldNum < 1 \/ fieldNum > MaxFieldNumber
    THEN [bm |-> b, err |-> "out of range"]
    ELSE IF fieldNum <= 64
    THEN [bm |-> [b EXCEPT !.primary[byteIndexOf(fieldNum) + 1] =
                      OrBit(@, bitIndexOf(fieldNum))],
          err |-> Nil]
    ELSE [bm |-> [b EXCEPT !.hasSecondary = TRUE,
                           !.primary[1] = OrBit(@, 7),
                           !.secondary[byteIndexOf(fieldNum - 64) + 1] =
                               OrBit(@, bitIndexOf(fieldNum - 64))],
          err |-> Nil]

\* BitmapManager.IsFieldSet
IsFieldSet(b, fieldNum) ==
    IF fieldNum < 1 \/ fieldNum > MaxFieldNumber THEN FALSE
    ELSE IF fieldNum <= 64
    THEN TestBit(b.primary[byteIndexOf(fieldNum) + 1], bitIndexOf(fieldNum))
    ELSE IF ~b.hasSecondary THEN FALSE
    ELSE TestBit(b.secondary[byteIndexOf(fieldNum - 64) + 1],
                 bitIndexOf(fieldNum - 64))

\* BitmapManager.ClearField
BitmapManager_ClearField(b, fieldNum) ==
    IF fieldNum < 1 \/ fieldNum > MaxFieldNumber
    THEN [bm |-> b, err |-> "out of range"]
    ELSE IF fieldNum <= 64
    THEN [bm |-> [b EXCEPT !.primary[byteIndexOf(fieldNum) + 1] =
                      AndNotBit(@, bitIndexOf(fieldNum))],
          err |-> Nil]
    ELSE IF ~b.hasSecondary THEN [bm |-> b, err |-> Nil]
    ELSE LET sec == [b.secondary EXCEPT ![byteIndexOf(fieldNum - 64) + 1] =
                        AndNotBit(@, bitIndexOf(fieldNum - 64))]
             isEmpty == \A i \in 1..SecondaryBitmapSize : sec[i] = 0
         IN IF isEmpty
            THEN [bm |-> [b EXCEPT !.secondary = sec,
                                   !.hasSecondary = FALSE,
                                   !.primary[1] = AndNotBit(@, 7)],
                  err |-> Nil]
            ELSE [bm |-> [b EXCEPT !.secondary = sec], err |-> Nil]

\* BitmapManager.Reset
BitmapManager_Reset(b) == NewBitmapManager

\* the numbers first..last in ascending order, as a for loop visits them
Range(first, last) == [i \in 1..(last - first + 1) |-> first + i - 1]

\* BitmapManager.GetPresentFields, as the ascending sequence it returns
BitmapManager_GetPresentFields(b) ==
    SelectSeq(Range(2, BitmapSize * 8), LAMBDA n : IsFieldSet(b, n))
    \o (IF b.hasSecondary
        THEN SelectSeq(Range(65, 64 + SecondaryBitmapSize * 8),
                       LAMBDA n : IsFieldSet(b, n))
        ELSE <<>>)

\* packBitmapBinary into a buffer of bufLen bytes: bytes written and error
packBitmapBinary(b, bufLen) ==
    LET totalSize == BitmapSize + (IF b.hasSecondary THEN SecondaryBitmapSize ELSE 0)
    IN IF bufLen < totalSize THEN [out |-> <<>>, err |-> "ErrBufferTooSmall"]
       ELSE [out |-> b.primary \o (IF b.hasSecondary THEN b.secondary ELSE <<>>),
             err |-> Nil]

\* packBitmapHex
packBitmapHex(b, bufLen) ==
    IF bufLen < 16 THEN [out |-> <<>>, err |-> "ErrBufferTooSmall"]
    ELSE IF b.hasSecondary
    THEN IF bufLen < 32 THEN [out |-> <<>>, err |-> "ErrBufferTooSmall"]
         ELSE [out |-> encodeHexUpper(b.primary) \o encodeHexUpper(b.secondary),
               err |-> Nil]
    ELSE [out |-> encodeHexUpper(b.primary), err |-> Nil]

\* BitmapManager.PackBitmap
PackBitmap(b, bufLen, encoding) ==
    IF encoding = BitmapEncodingHex THEN packBitmapHex(b, bufLen)
    ELSE packBitmapBinary(b, bufLen)

\* unpackBitmapBinary: the manager after the call, bytes consumed, error
unpackBitmapBinary(b, d) ==
    IF Len(d) < BitmapSize THEN [bm |-> b, n |-> 0, err |-> "ErrInvalidBitmap"]
    ELSE LET prim == Slice(d, 0, BitmapSize)
             has == TestBit(prim[1], 7)
         IN IF has
            THEN IF Len(d) < BitmapSize + SecondaryBitmapSize
                 THEN [bm |-> [b EXCEPT !.primary = prim, !.hasSecondary = TRUE],
                       n |-> 0, err |-> "ErrInvalidBitmap"]
                 ELSE [bm |-> [primary |-> prim,
                               secondary |-> Slice(d, BitmapSize,
                                                   BitmapSize + SecondaryBitmapSize),
                               hasSecondary |-> TRUE],
                       n |-> BitmapSize + SecondaryBitmapSize, err |-> Nil]
            ELSE [bm |-> [primary |-> prim,
                          secondary |-> Zeros(SecondaryBitmapSize),
                          hasSecondary |-> FALSE],
                  n |-> BitmapSize, err |-> Nil]

\* unpackBitmapHex
unpackBitmapHex(b, d) ==
    IF Len(d) < 16 THEN [bm |-> b, n |-> 0, err |-> "ErrInvalidBitmap"]
    ELSE LET p == hexDecode(b.primary, Slice(d, 0, 16))
         IN IF ~p.ok
            THEN [bm |-> [b EXCEPT !.primary = p.dst], n |-> 0,
                  err |-> "ErrInvalidBitmapHex"]
            ELSE LET has == TestBit(p.dst[1], 7)
                     b1 == [b EXCEPT !.primary = p.dst, !.hasSecondary = has]
                 IN IF has
                    THEN IF Len(d) < 32
                         THEN [bm |-> b1, n |-> 0, err |-> "ErrInvalidBitmap"]
                         ELSE LET s == hexDecode(b.secondary, Slice(d, 16, 32))
                              IN IF ~s.ok
                                 THEN [bm |-> [b1 EXCEPT !.secondary = s.dst],
                                       n |-> 0, err |-> "ErrInvalidBitmapHex"]
                                 ELSE [bm |-> [b1 EXCEPT !.secondary = s.dst],
                                       n |-> 32, err |-> Nil]
                    ELSE [bm |-> [b1 EXCEPT !.secondary = Zeros(SecondaryBitmapSize)],
                          n |-> 16, err |-> Nil]

\* BitmapManager.UnpackBitmap
UnpackBitmap(b, d, encoding) ==
    IF encoding = BitmapEncodingHex THEN unpackBitmapHex(b, d)
    ELSE unpackBitmapBinary(b, d)

-----------------------------------------------------------------------------
(* Schema types (types.go) and the CompiledPackager (packager.go).         *)

FieldTypeANS == "FieldTypeANS"
FieldTypeN == "FieldTypeN"
FieldTypeB == "FieldTypeB"

LengthFixed == "LengthFixed"
LengthLLVAR == "LengthLLVAR"
LengthLLLVAR == "LengthLLLVAR"
LengthLLLLVAR == "LengthLLLLVAR"

HeaderNone == "HeaderNone"
HeaderBinary == "HeaderBinary"

LengthIndicatorNone == "LengthIndicatorNone"
LengthIndicatorBinary == "LengthIndicatorBinary"
LengthIndicatorASCII == "LengthIndicatorASCII"
LengthIndicatorHex == "LengthIndicatorHex"

ValidationNone == "ValidationNone"
ValidationBasic == "ValidationBasic"
ValidationStrict == "ValidationStrict"
ValidationCustom == "ValidationCustom"

FieldConfig(type, length, maxLength) ==
    [Type |-> type, Length |-> length, MaxLength |-> maxLength,
     MinLength |-> 0, Mandatory |-> FALSE]

\* NewCompiledPackager(config): the packager keeps the config's field map,
\* bitmap encoding, length indicator and header configuration.
NewCompiledPackager(config) ==
    [isNil |-> FALSE,
     fieldConfigs |-> config.Fields,
     bitmapEncoding |-> config.BitmapEncoding,
     lengthIndicator |-> config.LengthIndicator,
     headerConfig |-> config.Header]

\* a nil *CompiledPackager
NilPackager ==
    [isNil |-> TRUE,
     fieldConfigs |-> <<>>,
     bitmapEncoding |-> BitmapEncodingHex,
     lengthIndicator |-> [Type |-> LengthIndicatorNone, Length |-> 0],
     headerConfig |-> [Type |-> HeaderNone, Length |-> 0]]

\* config, exists := m.packager.fieldConfigs[fieldNum]
FieldConfigured(pk, fieldNum) == fieldNum \in DOMAIN pk.fieldConfigs

-----------------------------------------------------------------------------
(* Field (field.go) and Message (message.go).                              *)

\* Field.reset; also the zero Field
ResetField ==
    [data |-> <<>>, dataNil |-> TRUE, length |-> 0,
     fieldType |-> FieldTypeANS, parsed |-> FALSE]

NoError == [field |-> 0, code |-> Nil, viaLastError |-> FALSE]
Err(code) == [field |-> 0, code |-> code, viaLastError |-> FALSE]
FieldErr(n, code) == [field |-> n, code |-> code, viaLastError |-> FALSE]

\* Message.reset: the state of a Message taken from the pool by NewMessage
ResetMessage ==
    [mti |-> Zeros(4),
     header |-> <<>>,
     validationLevel |-> ValidationNone,
     bitmap |-> NewBitmapManager,
     fieldPresence |-> <<{}, {}>>,
     fullMessage |-> <<>>,
     packager |-> NilPackager,
     fields |-> [i \in 1..MaxFieldNumber |-> ResetField],
     lastError |-> [Field |-> 0, Err |-> Nil]]

\* NewMessage(WithPackager(pk), WithHeader(h), WithValidationLevel(level))
NewMessage(pk, h, level) ==
    [ResetMessage EXCEPT !.packager = pk, !.header = h, !.validationLevel = level]

\* Message.isFieldPresent: idx and bit of the fieldPresence words
isFieldPresent(m, fieldNum) ==
    IF fieldNum < 1 \/ fieldNum > 128 THEN FALSE
    ELSE ((fieldNum - 1) % 64) \in m.fieldPresence[((fieldNum - 1) \div 64) + 1]

\* Message.setFieldPresent
setFieldPresent(m, fieldNum) ==
    IF fieldNum < 1 \/ fieldNum > 128 THEN m
    ELSE [m EXCEPT !.fieldPresence[((fieldNum - 1) \div 64) + 1] =
                       @ \cup {(fieldNum - 1) % 64}]

\* Message.SetMTI
SetMTI(m, mti) ==
    IF Len(mti) # 4 THEN [m |-> m, err |-> Err("ErrInvalidMTI")]
    ELSE [m |-> [m EXCEPT !.mti = mti], err |-> NoError]

\* Field.Bytes: nil reads as the empty slice
Field_Bytes(f) ==
    IF ~f.parsed \/ f.dataNil THEN <<>> ELSE Slice(f.data, 0, f.length)

\* Field.String: unsafe.String(&f.data[0], f.length) indexes element 0 of the
\* slice, which panics when the slice is non-nil and empty.
Field_String(f) ==
    IF ~f.parsed \/ f.dataNil THEN [value |-> <<>>, panic |-> FALSE]
    ELSE IF Len(f.data) = 0 THEN [value |-> <<>>, panic |-> TRUE]
    ELSE [value |-> Slice(f.data, 0, f.length), panic |-> FALSE]

\* Message.GetField
GetField(m, fieldNum) ==
    IF fieldNum < 1 \/ fieldNum > 128 THEN [found |-> FALSE, err |-> Err("ErrInvalidField")]
    ELSE IF ~isFieldPresent(m, fieldNum)
    THEN [found |-> FALSE, err |-> Err("ErrFieldNotFound")]
    ELSE [found |-> TRUE, err |-> NoError]

\* Message.GetString
GetString(m, fieldNum) ==
    LET g == GetField(m, fieldNum)
    IN IF ~g.found THEN [value |-> <<>>, panic |-> FALSE, err |-> g.err]
       ELSE LET s == Field_String(m.fields[fieldNum])
            IN [value |-> s.value, panic |-> s.panic, err |-> NoError]

\* Message.GetBytes
GetBytes(m, fieldNum) ==
    LET g == GetField(m, fieldNum)
    IN IF ~g.found THEN [value |-> <<>>, panic |-> FALSE, err |-> g.err]
       ELSE [value |-> Field_Bytes(m.fields[fieldNum]), panic |-> FALSE,
             err |-> NoError]

\* the decimal digits of v > 0, most significant first
RECURSIVE digitsOf(_)
digitsOf(v) == IF v <= 0 THEN <<>> ELSE digitsOf(v \div 10) \o <<48 + (v % 10)>>

\* formatIntToBytes(buf, value, width): the bytes left at the start of buf
formatIntToBytes(value, width) ==
    IF value = 0
    THEN IF width > 0 THEN [i \in 1..width |-> 48] ELSE <<48>>
    ELSE LET ds == digitsOf(value)
         IN IF width > Len(ds)
            THEN [i \in 1..(width - Len(ds)) |-> 48] \o ds
            ELSE ds

\* Field.SetInt
Field_SetInt(f, value, fieldType, width) ==
    LET ds == formatIntToBytes(value, width)
    IN [data |-> ds, dataNil |-> (f.dataNil /\ Len(ds) = 0),
        length |-> Len(ds), fieldType |-> fieldType, parsed |-> TRUE]

\* Message.SetField for a value of kind "string", "bytes", "int" or another
\* (unsupported) type
Message_SetField(m, fieldNum, value) ==
    IF fieldNum < 1 \/ fieldNum > 128
    THEN [m |-> m, err |-> FieldErr(fieldNum, "ErrInvalidField")]
    ELSE IF value.kind \notin {"string", "bytes", "int"}
    THEN [m |-> m, err |-> FieldErr(fieldNum, "unsupported value type")]
    ELSE LET f == m.fields[fieldNum]
             g == IF value.kind = "string"
                  THEN [data |-> value.v, dataNil |-> (Len(value.v) = 0),
                        length |-> Len(value.v), fieldType |-> FieldTypeANS,
                        parsed |-> TRUE]
                  ELSE IF value.kind = "bytes"
                  THEN [data |-> value.v, dataNil |-> FALSE,
                        length |-> Len(value.v), fieldType |-> FieldTypeB,
                        parsed |-> TRUE]
                  ELSE Field_SetInt(f, value.i, FieldTypeN, 0)
             m1 == setFieldPresent([m EXCEPT !.fields[fieldNum] = g], fieldNum)
         IN [m |-> [m1 EXCEPT !.bitmap =
                        BitmapManager_SetField(m1.bitmap, fieldNum).bm],
             err |-> NoError]


-----------------------------------------------------------------------------
(* Message.Unpack (message.go).                                            *)

isDigit(c) == c >= 48 /\ c <= 57

\* the number of digits of a variable length prefix, 0 for LengthFixed
prefixDigits(lengthType) ==
    IF lengthType = LengthLLVAR THEN 2
    ELSE IF lengthType = LengthLLLVAR THEN 3
    ELSE IF lengthType = LengthLLLLVAR THEN 4
    ELSE 0

\* the value of the ASCII decimal digits ds
RECURSIVE decimalOf(_)
decimalOf(ds) ==
    IF Len(ds) = 0 THEN 0
    ELSE decimalOf(SubSeq(ds, 1, Len(ds) - 1)) * 10 + (ds[Len(ds)] - 48)

\* calculateFieldLength(config, data, offset): field length, offset after the
\* length prefix, error
calculateFieldLength(config, d, offset) ==
    IF config.Length = LengthFixed
    THEN [length |-> config.MaxLength, offset |-> offset, err |-> Nil]
    ELSE IF config.Length \in {LengthLLVAR, LengthLLLVAR, LengthLLLLVAR}
    THEN LET w == prefixDigits(config.Length)
         IN IF Len(d) < offset + w
            THEN [length |-> 0, offset |-> offset, err |-> "ErrInvalidLength"]
            ELSE IF \E i \in 1..w : ~isDigit(d[offset + i])
            THEN [length |-> 0, offset |-> offset, err |-> "ErrInvalidLength"]
            ELSE [length |-> decimalOf(Slice(d, offset, offset + w)),
                  offset |-> offset + w, err |-> Nil]
    ELSE [length |-> 0, offset |-> offset, err |-> "ErrUnsupportedLengthType"]

\* Message.parseField: the message after the call, the new offset, the error
parseField(m, fieldNum, d, offset) ==
    IF m.packager.isNil
    THEN [m |-> m, offset |-> offset, err |-> "ErrNoPackagerConfigured"]
    ELSE IF ~FieldConfigured(m.packager, fieldNum)
    THEN [m |-> m, offset |-> offset, err |-> "ErrFieldNotConfigured"]
    ELSE LET config == m.packager.fieldConfigs[fieldNum]
             c == calculateFieldLength(config, d, offset)
         IN IF c.err # Nil THEN [m |-> m, offset |-> offset, err |-> c.err]
            ELSE IF Len(d) < c.offset + c.length
            THEN [m |-> m, offset |-> offset, err |-> "ErrInvalidLength"]
            ELSE [m |-> setFieldPresent(
                          [m EXCEPT !.fields[fieldNum] =
                              [data |-> Slice(d, c.offset, c.offset + c.length),
                               dataNil |-> FALSE,
                               length |-> c.length,
                               fieldType |-> config.Type,
                               parsed |-> TRUE]],
                          fieldNum),
                  offset |-> c.offset + c.length,
                  err |-> Nil]

\* the field loop of Unpack over the field numbers todo, which are the
\* numbers 2..128 whose bitmap bit is set, in ascending order (the loop skips
\* every other number, and parseField leaves the bitmap alone)
RECURSIVE unpackFields(_, _, _, _)
unpackFields(m, d, todo, offset) ==
    IF Len(todo) = 0 THEN [m |-> m, err |-> NoError, offset |-> offset]
    ELSE LET fieldNum == Head(todo)
             p == parseField(m, fieldNum, d, offset)
         IN IF p.err # Nil
            THEN [m |-> [p.m EXCEPT !.lastError = [Field |-> fieldNum, Err |-> p.err]],
                  err |-> [field |-> fieldNum, code |-> p.err, viaLastError |-> TRUE],
                  offset |-> offset]
            ELSE unpackFields(p.m, d, Tail(todo), p.offset)

\* Message.Unpack(data): the message after the call, the error returned and
\* the offset reached
Unpack(m, d) ==
    IF Len(d) < 4 THEN [m |-> m, err |-> Err("ErrInvalidMTI"), offset |-> 0]
    ELSE
    LET m1 == [m EXCEPT !.fullMessage = d]
        hasHeader == ~m.packager.isNil /\ m.packager.headerConfig.Type # HeaderNone
        headerLen == m.packager.headerConfig.Length
    IN IF hasHeader /\ Len(d) < headerLen
       THEN [m |-> m1, err |-> Err("ErrInvalidHeader"), offset |-> 0]
       ELSE
       LET m2 == IF hasHeader THEN [m1 EXCEPT !.header = Slice(d, 0, headerLen)]
                 ELSE m1
           off2 == IF hasHeader THEN headerLen ELSE 0
       IN IF Len(d) < off2 + 4
          THEN [m |-> m2, err |-> Err("ErrInvalidMTI"), offset |-> off2]
          ELSE
          LET m3 == [m2 EXCEPT !.mti = Slice(d, off2, off2 + 4)]
              off3 == off2 + 4
              encoding == IF m.packager.isNil THEN BitmapEncodingHex
                          ELSE m.packager.bitmapEncoding
              u == UnpackBitmap(m3.bitmap, Slice(d, off3, Len(d)), encoding)
              m4 == [m3 EXCEPT !.bitmap = u.bm]
          IN IF u.err # Nil
             THEN [m |-> m4, err |-> Err(u.err), offset |-> off3]
             ELSE unpackFields(m4, d,
                               SelectSeq(Range(2, 128),
                                         LAMBDA n : IsFieldSet(m4.bitmap, n)),
                               off3 + u.n)

-----------------------------------------------------------------------------
(* Message.Pack (message.go).                                              *)

\* writeIntToASCII with the digits stored from the first byte on instead of
\* from the last: the least significant digit comes first
writeIntToASCII_forward(val, digits) ==
    [i \in 1..digits |-> 48 + ((val \div (10 ^ (i - 1))) % 10)]

\* writeIntToASCII(buf, val, digits): the digits bytes written
writeIntToASCII(val, digits) ==
    [i \in 1..digits |-> 48 + ((val \div (10 ^ (digits - i))) % 10)]

\* Message.packField into buf[offset:] of a buffer of bufLen bytes: the length
\* prefix and the data written for the field, and the error
packField(m, fieldNum, bufLen, offset) ==
    LET field == m.fields[fieldNum]
    IN IF ~field.parsed THEN [prefix |-> <<>>, value |-> <<>>, err |-> "ErrFieldNotFound"]
       ELSE IF m.packager.isNil THEN [prefix |-> <<>>, value |-> <<>>, err |-> "no packager configured"]
       ELSE IF ~FieldConfigured(m.packager, fieldNum)
       THEN [prefix |-> <<>>, value |-> <<>>, err |-> "field not configured"]
       ELSE
       LET config == m.packager.fieldConfigs[fieldNum]
           fieldData == Field_Bytes(field)
           w == prefixDigits(config.Length)
       IN IF w > 0 /\ bufLen < offset + w
          THEN [prefix |-> <<>>, value |-> <<>>, err |-> "ErrBufferTooSmall"]
          ELSE IF config.Length = LengthFixed /\ Len(fieldData) # config.MaxLength
          THEN [prefix |-> <<>>, value |-> <<>>, err |-> "fixed field length mismatch"]
          ELSE IF bufLen < offset + w + Len(fieldData)
          THEN [prefix |-> <<>>, value |-> <<>>, err |-> "ErrBufferTooSmall"]
          ELSE [prefix |-> writeIntToASCII(Len(fieldData), w),
                value |-> fieldData, err |-> Nil]

\* the field loop of Pack over the field numbers todo, which are the numbers
\* 2..128 that isFieldPresent reports, in ascending order; out holds
\* buf[:offset] and segs the fields written so far, each with its number,
\* prefix and data
RECURSIVE packFields(_, _, _, _, _)
packFields(m, todo, bufLen, out, segs) ==
    IF Len(todo) = 0
    THEN [n |-> Len(out), out |-> out, segs |-> segs, err |-> NoError]
    ELSE LET fieldNum == Head(todo)
             p == packField(m, fieldNum, bufLen, Len(out))
         IN IF p.err # Nil
            THEN [n |-> 0, out |-> <<>>, segs |-> <<>>,
                  err |-> FieldErr(fieldNum, p.err)]
            ELSE packFields(m, Tail(todo), bufLen, out \o p.prefix \o p.value,
                            Append(segs, [field |-> fieldNum, at |-> Len(out),
                                          prefix |-> p.prefix, value |-> p.value]))

\* Message.Pack(buf) for a buffer of bufLen bytes: the count returned, the
\* bytes buf[:n], the fields written and the error
Pack(m, bufLen) ==
    LET hdr == IF Len(m.header) > 0 THEN m.header ELSE <<>>
        failed(code) == [n |-> 0, out |-> <<>>, segs |-> <<>>, err |-> Err(code)]
    IN IF bufLen < Len(hdr) + 4 THEN failed("ErrBufferTooSmall")
       ELSE
       LET encoding == IF m.packager.isNil THEN BitmapEncodingHex
                       ELSE m.packager.bitmapEncoding
           b == PackBitmap(m.bitmap, bufLen - (Len(hdr) + 4), encoding)
       IN IF b.err # Nil THEN failed(b.err)
          ELSE packFields(m, SelectSeq(Range(2, 128),
                                       LAMBDA n : isFieldPresent(m, n)),
                          bufLen, hdr \o m.mti \o b.out, <<>>)

-----------------------------------------------------------------------------
(* The message length indicator (length_indicator.go).                     *)
(*                                                                         *)
(* A Go int handed to WriteLengthIndicator is held as its two halves,      *)
(* value = hi * 65536 + lo with 0 <= lo < 65536, so that values above      *)
(* 0x7FFFFFFF can be written down.                                         *)

IntOf(hi, lo) == [hi |-> hi, lo |-> lo]

\* msgLen > limit for a limit below 65536
ExceedsLow(msgLen, limit) == msgLen.hi > 0 \/ msgLen.lo > limit

LengthIndicatorConfig(type, length) == [Type |-> type, Length |-> length]

liResult(n, out, err) == [n |-> n, out |-> out, err |-> err]

\* writeBinaryLengthIndicator: bytes written, the bytes, error
writeBinaryLengthIndicator(msgLen, config) ==
    IF config.Length = 2
    THEN IF ExceedsLow(msgLen, 65535)
         THEN liResult(0, <<>>, "message length exceeds 2-byte maximum")
         ELSE liResult(2, <<(msgLen.lo \div 256) % 256, msgLen.lo % 256>>, Nil)
    ELSE IF config.Length = 4
    THEN IF msgLen.hi > 32767
         THEN liResult(0, <<>>, "message length exceeds 4-byte maximum")
         ELSE liResult(4, <<(msgLen.hi \div 256) % 256, msgLen.hi % 256,
                            (msgLen.lo \div 256) % 256, msgLen.lo % 256>>, Nil)
    ELSE liResult(0, <<>>, "invalid binary length indicator size")

\* writeASCIILengthIndicator
writeASCIILengthIndicator(msgLen, config) ==
    IF config.Length # 4
    THEN liResult(0, <<>>, "ASCII length indicator must be 4 characters")
    ELSE IF ExceedsLow(msgLen, 9999)
    THEN liResult(0, <<>>, "message length exceeds 4-digit ASCII maximum")
    ELSE liResult(4, writeIntToASCII(msgLen.lo, 4), Nil)

\* writeHexLengthIndicator: fmt.Sprintf("%04X", msgLen) of a value below
\* 0x10000 is its 4 upper-case hex digits
writeHexLengthIndicator(msgLen, config) ==
    IF config.Length # 4
    THEN liResult(0, <<>>, "hex length indicator must be 4 characters")
    ELSE IF ExceedsLow(msgLen, 65535)
    THEN liResult(0, <<>>, "message length exceeds 4-char hex maximum")
    ELSE liResult(4, encodeHexUpper(<<msgLen.lo \div 256, msgLen.lo % 256>>), Nil)

\* WriteLengthIndicator(msgLen, buf, config) for a buffer of bufLen bytes
WriteLengthIndicator(msgLen, bufLen, config) ==
    IF config.Type = LengthIndicatorNone THEN liResult(0, <<>>, Nil)
    ELSE IF bufLen < config.Length THEN liResult(0, <<>>, "ErrBufferTooSmall")
    ELSE IF config.Type = LengthIndicatorBinary
    THEN writeBinaryLengthIndicator(msgLen, config)
    ELSE IF config.Type = LengthIndicatorASCII
    THEN writeASCIILengthIndicator(msgLen, config)
    ELSE IF config.Type = LengthIndicatorHex
    THEN writeHexLengthIndicator(msgLen, config)
    ELSE liResult(0, <<>>, "unsupported length indicator type")

liRead(value, n, err) == [value |-> value, n |-> n, err |-> err]

\* readBinaryLengthIndicator: message length, bytes consumed, error
readBinaryLengthIndicator(buf, config) ==
    IF config.Length = 2
    THEN IF Len(buf) < 2 THEN liRead(0, 0, "ErrInvalidLength")
         ELSE liRead(buf[1] * 256 + buf[2], 2, Nil)
    ELSE IF config.Length = 4
    THEN IF Len(buf) < 4 THEN liRead(0, 0, "ErrInvalidLength")
         ELSE liRead(((buf[1] * 256 + buf[2]) * 256 + buf[3]) * 256 + buf[4], 4, Nil)
    ELSE liRead(0, 0, "invalid binary length indicator size")

\* parseASCIIToInt: value and error
parseASCIIToInt(b) ==
    IF \E i \in 1..Len(b) : ~isDigit(b[i])
    THEN [n |-> 0, err |-> "invalid character in numeric string"]
    ELSE [n |-> decimalOf(b), err |-> Nil]

\* readASCIILengthIndicator
readASCIILengthIndicator(buf, config) ==
    IF config.Length # 4
    THEN liRead(0, 0, "ASCII length indicator must be 4 characters")
    ELSE IF Len(buf) < 4 THEN liRead(0, 0, "ErrInvalidLength")
    ELSE LET p == parseASCIIToInt(Slice(buf, 0, 4))
         IN IF p.err # Nil THEN liRead(0, 0, "invalid ASCII length indicator")
            ELSE liRead(p.n, 4, Nil)

\* the value of the hex digits ds
RECURSIVE hexValueOf(_)
hexValueOf(ds) ==
    IF Len(ds) = 0 THEN 0
    ELSE hexValueOf(SubSeq(ds, 1, Len(ds) - 1)) * 16 + fromHexChar(ds[Len(ds)])

\* strconv.ParseInt(s, 16, 32) for a string of at most 4 bytes: an optional
\* sign '+' or '-', then one or more hex digits of either case
parseIntHex(str) ==
    LET signed == Len(str) > 0 /\ str[1] \in {43, 45}
        digits == IF signed THEN Tail(str) ELSE str
    IN IF Len(digits) = 0 \/ \E i \in 1..Len(digits) : fromHexChar(digits[i]) > 15
       THEN [n |-> 0, err |-> "strconv.ParseInt: invalid syntax"]
       ELSE [n |-> IF signed /\ str[1] = 45 THEN 0 - hexValueOf(digits)
                   ELSE hexValueOf(digits),
             err |-> Nil]

\* readHexLengthIndicator
readHexLengthIndicator(buf, config) ==
    IF config.Length # 4
    THEN liRead(0, 0, "hex length indicator must be 4 characters")
    ELSE IF Len(buf) < 4 THEN liRead(0, 0, "ErrInvalidLength")
    ELSE LET p == parseIntHex(Slice(buf, 0, 4))
         IN IF p.err # Nil THEN liRead(0, 0, "invalid hex length indicator")
            ELSE liRead(p.n, 4, Nil)

\* ReadLengthIndicator(buf, config)
ReadLengthIndicator(buf, config) ==
    IF config.Type = LengthIndicatorNone THEN liRead(Len(buf), 0, Nil)
    ELSE IF Len(buf) < config.Length THEN liRead(0, 0, "ErrInvalidLength")
    ELSE IF config.Type = LengthIndicatorBinary
    THEN readBinaryLengthIndicator(buf, config)
    ELSE IF config.Type = LengthIndicatorASCII
    THEN readASCIILengthIndicator(buf, config)
    ELSE IF config.Type = LengthIndicatorHex
    THEN readHexLengthIndicator(buf, config)
    ELSE liRead(0, 0, "unsupported length indicator type")

-----------------------------------------------------------------------------
(* The length indicator scenario: WriteLengthIndicator of a value under a  *)
(* configuration and ReadLengthIndicator of the bytes written, or          *)
(* ReadLengthIndicator of bytes received.                                  *)

\* the configurations: the supported ones, widths that are not supported,
\* none, and a type value outside the enumeration
LiConfigs ==
    {LengthIndicatorConfig(LengthIndicatorBinary, 2),
     LengthIndicatorConfig(LengthIndicatorBinary, 4),
     LengthIndicatorConfig(LengthIndicatorASCII, 4),
     LengthIndicatorConfig(LengthIndicatorHex, 4),
     LengthIndicatorConfig(LengthIndicatorBinary, 3),
     LengthIndicatorConfig(LengthIndicatorASCII, 2),
     LengthIndicatorConfig(LengthIndicatorHex, 2),
     LengthIndicatorConfig(LengthIndicatorNone, 0),
     LengthIndicatorConfig("LengthIndicatorType(9)", 4)}

\* the message lengths: 0, 1, 48, 200, 255, 256, 9999, 10000, 0xFFFF,
\* 0x10000, 0x7FFFFFFF, 0x80000000
LiValues ==
    {IntOf(0, 0), IntOf(0, 1), IntOf(0, 48), IntOf(0, 200), IntOf(0, 255),
     IntOf(0, 256), IntOf(0, 9999), IntOf(0, 10000), IntOf(0, 65535),
     IntOf(1, 0), IntOf(32767, 65535), IntOf(32768, 0)}

\* len(buf) handed to WriteLengthIndicator
LiBufLens == {1, 3, 8}

\* the longest buffer handed to ReadLengthIndicator as received
MaxRawLen == 4

\* the bytes of received buffers: '0', '9', 'C', 'c', 'g', '-', '+'
RawBytes == {48, 57, 67, 99, 103, 45, 43}
RawBuffers == UNION {[1..n -> RawBytes] : n \in 0..MaxRawLen}

NoLiWire == [msgLen |-> IntOf(0, 0), bufLen |-> 0, n |-> 0, out |-> <<>>,
             err |-> Nil]
NoLiBack == liRead(0, 0, Nil)

LiIdle ==
    /\ liConfig = LengthIndicatorConfig(LengthIndicatorNone, 0)
    /\ liWire = NoLiWire
    /\ liBuf = <<>>
    /\ liBack = NoLiBack
    /\ liPc = "idle"

LiInit ==
    /\ liConfig \in LiConfigs
    /\ liWire = NoLiWire
    /\ liBuf = <<>>
    /\ liBack = NoLiBack
    /\ liPc = "new"

LiWrite(msgLen, bufLen) ==
    /\ liPc = "new"
    /\ LET w == WriteLengthIndicator(msgLen, bufLen, liConfig)
       IN liWire' = [msgLen |-> msgLen, bufLen |-> bufLen, n |-> w.n,
                     out |-> w.out, err |-> w.err]
    /\ liPc' = "written"
    /\ UNCHANGED <<liConfig, liBuf, liBack>>
    /\ UNCHANGED notLiVars

\* ReadLengthIndicator of the bytes WriteLengthIndicator wrote
LiReadWritten ==
    /\ liPc = "written"
    /\ liWire.err = Nil
    /\ liBuf' = liWire.out
    /\ liBack' = ReadLengthIndicator(liWire.out, liConfig)
    /\ liPc' = "readback"
    /\ UNCHANGED <<liConfig, liWire>>
    /\ UNCHANGED notLiVars

\* ReadLengthIndicator of received bytes
LiReadRaw(buf) ==
    /\ liPc = "new"
    /\ liBuf' = buf
    /\ liBack' = ReadLengthIndicator(buf, liConfig)
    /\ liPc' = "read"
    /\ UNCHANGED <<liConfig, liWire>>
    /\ UNCHANGED notLiVars

-----------------------------------------------------------------------------
(* The compiled validator (validator.go) and the packager configuration    *)
(* (packager.go, options.go, constant.go).                                 *)

\* the validation rules; a rule is held with every option of the four rule
\* types, kind telling which type it is
Rule(kind) ==
    [kind |-> kind, MinLength |-> 0, MaxLength |-> 0, ExactLength |-> 0,
     AllowEmpty |-> FALSE, AllowLeadingZeros |-> FALSE,
     AllowSpecialChars |-> FALSE, RequireEvenLength |-> FALSE]

\* &LengthRule{MinLength: min, MaxLength: max}
LengthRule(min, max) ==
    [Rule("length") EXCEPT !.MinLength = min, !.MaxLength = max]
\* &NumericRule{}, &AlphanumericRule{}, &BinaryRule{}
NumericRule == Rule("numeric")
AlphanumericRule == Rule("alphanumeric")
BinaryRule == Rule("binary")

\* LengthRule.Validate: the error message, or Nil
LengthRule_Validate(r, field) ==
    LET length == field.length
    IN IF length = 0 /\ r.AllowEmpty THEN Nil
       ELSE IF r.ExactLength > 0 /\ length # r.ExactLength THEN "expected length"
       ELSE IF r.MinLength > 0 /\ length < r.MinLength THEN "length below minimum"
       ELSE IF r.MaxLength > 0 /\ length > r.MaxLength THEN "length exceeds maximum"
       ELSE Nil

\* NumericRule.Validate
NumericRule_Validate(r, field) ==
    LET d == Field_Bytes(field)
    IN IF Len(d) = 0 /\ r.AllowEmpty THEN Nil
       ELSE IF \E i \in 1..Len(d) : d[i] < 48 \/ d[i] > 57
       THEN "non-numeric character"
       ELSE IF ~r.AllowLeadingZeros /\ Len(d) > 1 /\ d[1] = 48
       THEN "leading zeros not allowed"
       ELSE Nil

\* AlphanumericRule.Validate, for a rule without CustomCharset
AlphanumericRule_Validate(r, field) ==
    LET d == Field_Bytes(field)
        basic(b) == \/ (b >= 48 /\ b <= 57)
                    \/ (b >= 65 /\ b <= 90)
                    \/ (b >= 97 /\ b <= 122)
                    \/ b = 32
    IN IF Len(d) = 0 /\ r.AllowEmpty THEN Nil
       ELSE IF ~r.AllowSpecialChars /\ \E i \in 1..Len(d) : ~basic(d[i])
       THEN "special character not allowed"
       ELSE Nil

\* BinaryRule.Validate
BinaryRule_Validate(r, field) ==
    LET d == Field_Bytes(field)
    IN IF Len(d) = 0 /\ r.AllowEmpty THEN Nil
       ELSE IF r.RequireEvenLength /\ Len(d) % 2 # 0
       THEN "binary data must have even length"
       ELSE Nil

\* rule.Validate(field), by the rule's type
Rule_Validate(r, field) ==
    IF r.kind = "length" THEN LengthRule_Validate(r, field)
    ELSE IF r.kind = "numeric" THEN NumericRule_Validate(r, field)
    ELSE IF r.kind = "alphanumeric" THEN AlphanumericRule_Validate(r, field)
    ELSE BinaryRule_Validate(r, field)

\* a nil error, and &ValidationError{Field, Rule, Message}
NoValidationError == [Field |-> 0, Rule |-> Nil, Message |-> Nil]
ValidationError(fieldNum, rule, message) ==
    [Field |-> fieldNum, Rule |-> rule, Message |-> message]

\* NewCompiledValidator
NewCompiledValidator ==
    [mandatoryFields |-> {}, fieldRules |-> <<>>, globalRules |-> <<>>]

\* the rules compileValidator builds for one FieldConfig
compiledRules(fieldConfig) ==
    (IF fieldConfig.MinLength > 0 \/ fieldConfig.MaxLength > 0
     THEN <<LengthRule(fieldConfig.MinLength, fieldConfig.MaxLength)>>
     ELSE <<>>)
    \o (IF fieldConfig.Type = FieldTypeN THEN <<NumericRule>>
        ELSE IF fieldConfig.Type = FieldTypeANS THEN <<AlphanumericRule>>
        ELSE IF fieldConfig.Type = FieldTypeB THEN <<BinaryRule>>
        ELSE <<>>)

\* compileValidator(config), for the field map config.Fields holds
compileValidator(fields) ==
    [mandatoryFields |-> {n \in DOMAIN fields : fields[n].Mandatory},
     fieldRules |-> [n \in {k \in DOMAIN fields : compiledRules(fields[k]) # <<>>}
                        |-> compiledRules(fields[n])],
     globalRules |-> <<>>]

\* CompiledValidator.AddGlobalRule
AddGlobalRule(cv, rule) ==
    [cv EXCEPT !.globalRules = Append(cv.globalRules, rule)]

\* CompiledValidator.ValidateField: the field's own rules in order, then the
\* global rules in order; the first error
ValidateField(cv, fieldNum, field) ==
    LET own == IF fieldNum \in DOMAIN cv.fieldRules
               THEN cv.fieldRules[fieldNum] ELSE <<>>
        all == own \o cv.globalRules
        failing == {i \in 1..Len(all) : Rule_Validate(all[i], field) # Nil}
    IN IF failing = {} THEN NoValidationError
       ELSE LET i == CHOOSE j \in failing : \A k \in failing : j <= k
            IN ValidationError(fieldNum, all[i].kind, Rule_Validate(all[i], field))

\* CompiledValidator.ValidateMessage: the loop over fieldNum 1..128 returns at
\* the first field that is mandatory and absent, or present and in error
ValidateMessage(cv, m, level) ==
    IF level = ValidationNone THEN NoValidationError
    ELSE LET missing(n) == n \in cv.mandatoryFields /\ ~isFieldPresent(m, n)
             inError(n) == /\ isFieldPresent(m, n)
                           /\ ValidateField(cv, n, m.fields[n]) # NoValidationError
             bad == {n \in 1..128 : missing(n) \/ inError(n)}
         IN IF bad = {} THEN NoValidationError
            ELSE LET n == CHOOSE j \in bad : \A k \in bad : j <= k
                 IN IF missing(n)
                    THEN ValidationError(n, "mandatory", "mandatory field missing")
                    ELSE ValidateField(cv, n, m.fields[n])

\* Message.Validate, cv being the validator of m's packager
Message_Validate(m, cv) ==
    IF m.packager.isNil THEN NoValidationError
    ELSE ValidateMessage(cv, m, m.validationLevel)

\* the entries of DefaultConfigField (constant.go) for fields 2 and 5 and for
\* every field it makes mandatory
DefaultConfigField ==
    (2 :> FieldConfig(FieldTypeN, LengthLLVAR, 19))
    @@ (3 :> [FieldConfig(FieldTypeN, LengthFixed, 6) EXCEPT !.Mandatory = TRUE])
    @@ (4 :> [FieldConfig(FieldTypeN, LengthFixed, 12) EXCEPT !.Mandatory = TRUE])
    @@ (5 :> FieldConfig(FieldTypeN, LengthFixed, 12))
    @@ (7 :> [FieldConfig(FieldTypeN, LengthFixed, 10) EXCEPT !.Mandatory = TRUE])
    @@ (11 :> [FieldConfig(FieldTypeN, LengthFixed, 6) EXCEPT !.Mandatory = TRUE])
    @@ (12 :> [FieldConfig(FieldTypeN, LengthFixed, 6) EXCEPT !.Mandatory = TRUE])
    @@ (13 :> [FieldConfig(FieldTypeN, LengthFixed, 4) EXCEPT !.Mandatory = TRUE])
    @@ (22 :> [FieldConfig(FieldTypeN, LengthFixed, 3) EXCEPT !.Mandatory = TRUE])
    @@ (25 :> [FieldConfig(FieldTypeN, LengthFixed, 2) EXCEPT !.Mandatory = TRUE])
    @@ (49 :> [FieldConfig(FieldTypeANS, LengthFixed, 3) EXCEPT !.Mandatory = TRUE])

\* DefaultPackagerConfig: Fields is the map DefaultConfigField itself
DefaultPackagerConfig ==
    [Fields |-> "DefaultConfigField",
     BitmapEncoding |-> BitmapEncodingHex,
     LengthIndicator |-> [Type |-> LengthIndicatorNone, Length |-> 0],
     Header |-> [Type |-> HeaderNone, Length |-> 0]]

\* WithFieldConfig(fieldNum, config) applied to pc: pc.Fields is never nil
\* after DefaultPackagerConfig, so the entry is stored in the map pc.Fields
\* names
WithFieldConfig(maps, pconfig, fieldNum, config) ==
    [maps EXCEPT ![pconfig.Fields] =
        [n \in (DOMAIN maps[pconfig.Fields]) \cup {fieldNum} |->
            IF n = fieldNum THEN config ELSE maps[pconfig.Fields][n]]]

\* CompiledPackager.GetFieldConfig: config and exists
GetFieldConfig(maps, packager, fieldNum) ==
    IF fieldNum \in DOMAIN maps[packager.fieldConfigs]
    THEN [config |-> maps[packager.fieldConfigs][fieldNum], exists |-> TRUE]
    ELSE [config |-> FieldConfig(FieldTypeANS, LengthFixed, 0), exists |-> FALSE]

-----------------------------------------------------------------------------
(* The schema scenario: packager configurations are built, one packager is *)
(* compiled, rules are added to its validator, Messages are created on it, *)
(* filled and validated.                                                   *)

\* the field map of a configuration the caller wrote as a literal
OwnFields ==
    (2 :> FieldConfig(FieldTypeN, LengthLLVAR, 3))
    @@ (3 :> [FieldConfig(FieldTypeN, LengthFixed, 2) EXCEPT !.Mandatory = TRUE])
    @@ (4 :> FieldConfig(FieldTypeANS, LengthFixed, 2))
    @@ (5 :> [FieldConfig(FieldTypeB, LengthLLVAR, 3) EXCEPT !.MinLength = 2])

OwnPackagerConfig == [DefaultPackagerConfig EXCEPT !.Fields = "own"]

\* the arguments of WithFieldConfig
FieldConfigInputs ==
    {<<2, FieldConfig(FieldTypeANS, LengthLLLVAR, 99)>>,
     <<3, FieldConfig(FieldTypeN, LengthFixed, 6)>>,
     <<6, FieldConfig(FieldTypeB, LengthFixed, 8)>>}

\* the rules handed to WithCustomValidation and AddGlobalRule:
\* &NumericRule{AllowLeadingZeros: true} and &LengthRule{MaxLength: 1}
GlobalRuleInputs ==
    {[NumericRule EXCEPT !.AllowLeadingZeros = TRUE], LengthRule(0, 1)}

\* the most rules a validator is given
MaxGlobalRules == 1

\* the most SetField calls on one Message
MaxSvSets == 2

SvLevels == {ValidationNone, ValidationBasic, ValidationStrict}

NoPackager == [made |-> FALSE, fieldConfigs |-> "own",
               validator |-> NewCompiledValidator]
NoSvMsg == [made |-> FALSE, m |-> ResetMessage, sets |-> 0]
NoSvRes == [called |-> FALSE, err |-> NoValidationError]

SvIdle ==
    /\ fieldMaps = <<>>
    /\ cp = NoPackager
    /\ svMsg = NoSvMsg
    /\ svRes = NoSvRes
    /\ svOp = "idle"

SvInit ==
    /\ fieldMaps = [name \in {"DefaultConfigField", "own"} |->
                       IF name = "own" THEN OwnFields ELSE DefaultConfigField]
    /\ cp = NoPackager
    /\ svMsg = NoSvMsg
    /\ svRes = NoSvRes
    /\ svOp = "none"

\* NewPackagerConfig(WithFieldConfig(fieldNum, config))
SvNewPackagerConfig(fieldNum, config) ==
    /\ svOp \in {"none", "NewCompiledPackager"}
    /\ fieldMaps' = WithFieldConfig(fieldMaps, DefaultPackagerConfig, fieldNum, config)
    /\ svOp' = "NewPackagerConfig"
    /\ UNCHANGED <<cp, svMsg, svRes>>
    /\ UNCHANGED notSvVars

\* cp := NewCompiledPackager(pconfig)
SvNewCompiledPackager(pconfig) ==
    /\ ~cp.made
    /\ cp' = [made |-> TRUE, fieldConfigs |-> pconfig.Fields,
              validator |-> compileValidator(fieldMaps[pconfig.Fields])]
    /\ svOp' = "NewCompiledPackager"
    /\ UNCHANGED <<fieldMaps, svMsg, svRes>>
    /\ UNCHANGED notSvVars

\* cp.GetValidator().AddGlobalRule(rule)
SvAddGlobalRule(rule) ==
    /\ cp.made
    /\ Len(cp.validator.globalRules) < MaxGlobalRules
    /\ cp' = [cp EXCEPT !.validator = AddGlobalRule(cp.validator, rule)]
    /\ svOp' = "AddGlobalRule"
    /\ UNCHANGED <<fieldMaps, svMsg, svRes>>
    /\ UNCHANGED notSvVars

\* the packager a Message of the scenario points to
PackagerOf(maps, packager) ==
    NewCompiledPackager([DefaultPackagerConfig EXCEPT
                            !.Fields = maps[packager.fieldConfigs]])

\* svMsg := NewMessage(WithPackager(cp), WithValidationLevel(level))
SvNewMessage(level) ==
    /\ cp.made
    /\ svMsg' = [made |-> TRUE, sets |-> 0,
                 m |-> NewMessage(PackagerOf(fieldMaps, cp), <<>>, level)]
    /\ svRes' = NoSvRes
    /\ svOp' = "NewMessage"
    /\ UNCHANGED <<fieldMaps, cp>>
    /\ UNCHANGED notSvVars

\* svMsg := NewMessage(WithPackager(cp), WithCustomValidation(rules...)): the
\* option sets the level and adds each rule to the validator of the packager
SvNewMessageCustom(rules) ==
    /\ cp.made
    /\ Len(cp.validator.globalRules) + Len(rules) <= MaxGlobalRules
    /\ svMsg' = [made |-> TRUE, sets |-> 0,
                 m |-> NewMessage(PackagerOf(fieldMaps, cp), <<>>, ValidationCustom)]
    /\ cp' = [cp EXCEPT !.validator.globalRules = cp.validator.globalRules \o rules]
    /\ svRes' = NoSvRes
    /\ svOp' = "NewMessage"
    /\ UNCHANGED fieldMaps
    /\ UNCHANGED notSvVars

\* svMsg.SetField(fieldNum, value)
SvSetField(fieldNum, value) ==
    /\ svMsg.made
    /\ svMsg.sets < MaxSvSets
    /\ ~isFieldPresent(svMsg.m, fieldNum)
    /\ svMsg' = [svMsg EXCEPT !.m = Message_SetField(svMsg.m, fieldNum, value).m,
                              !.sets = svMsg.sets + 1]
    /\ svRes' = NoSvRes
    /\ svOp' = "SetField"
    /\ UNCHANGED <<fieldMaps, cp>>
    /\ UNCHANGED notSvVars

\* svMsg.SetValidationLevel(level)
SvSetValidationLevel(level) ==
    /\ svMsg.made
    /\ svMsg.m.validationLevel = ValidationCustom
    /\ svMsg' = [svMsg EXCEPT !.m.validationLevel = level]
    /\ svRes' = NoSvRes
    /\ svOp' = "SetValidationLevel"
    /\ UNCHANGED <<fieldMaps, cp>>
    /\ UNCHANGED notSvVars

\* svMsg.Validate()
SvValidate ==
    /\ svMsg.made
    /\ ~svRes.called
    /\ svRes' = [called |-> TRUE, err |-> Message_Validate(svMsg.m, cp.validator)]
    /\ svOp' = "Validate"
    /\ UNCHANGED <<fieldMaps, cp, svMsg>>
    /\ UNCHANGED notSvVars

-----------------------------------------------------------------------------
(* Concurrent calls on one CompiledValidator (validator.go).               *)
(*                                                                         *)
(* cv.mu is a sync.RWMutex: RLock returns at once unless a writer has      *)
(* called Lock, and then blocks until that writer has called Unlock; Lock  *)
(* first excludes the other writers and stops new readers, then waits for  *)
(* the readers that hold the lock to call RUnlock.                         *)

\* the goroutines calling the validator
NumGoroutines == 3
Goroutines == 1..NumGoroutines

\* the most fields present in a Message handed to ValidateMessage
MaxPresent == 2

\* mu.writer: the goroutines that have called Lock and not yet Unlock, at
\* most one
NoWriter == {}

\* the calls: ValidateMessage(msg, level) with the number of fields present
\* in msg, ValidateField(fieldNum, field), AddGlobalRule(rule)
Call(op, level, present) ==
    [op |-> op, level |-> level, left |-> present, nested |-> FALSE,
     pc |-> IF op = "ValidateMessage" THEN "ValidateMessage.RLock"
            ELSE IF op = "ValidateField" THEN "ValidateField.RLock"
            ELSE "AddGlobalRule.Lock"]

CallInputs ==
    {Call("ValidateMessage", level, present) :
        level \in {ValidationNone, ValidationBasic}, present \in 0..MaxPresent}
    \cup {Call("ValidateField", ValidationNone, 0),
          Call("AddGlobalRule", ValidationNone, 0)}

CvIdle ==
    /\ mu = [readers |-> 0, writer |-> NoWriter, held |-> FALSE]
    /\ calls = <<>>
    /\ nRules = 0

CvInit ==
    /\ mu = [readers |-> 0, writer |-> NoWriter, held |-> FALSE]
    /\ calls \in [Goroutines -> CallInputs]
    /\ nRules = 0

\* cv.mu.RLock() of ValidateMessage or of ValidateField returns
CvRLock(g) ==
    /\ calls[g].pc \in {"ValidateMessage.RLock", "ValidateField.RLock"}
    /\ mu.writer = NoWriter
    /\ mu' = [mu EXCEPT !.readers = mu.readers + 1]
    /\ calls' = [calls EXCEPT ![g].pc =
                    IF calls[g].pc = "ValidateMessage.RLock"
                    THEN "ValidateMessage.loop" ELSE "ValidateField.rules"]
    /\ UNCHANGED nRules
    /\ UNCHANGED notCvVars

\* ValidateMessage under its read lock: return at ValidationNone or after the
\* last field, else call cv.ValidateField for the next present field
CvValidateMessage(g) ==
    /\ calls[g].pc = "ValidateMessage.loop"
    /\ calls' = [calls EXCEPT ![g] =
                    IF calls[g].level = ValidationNone \/ calls[g].left = 0
                    THEN [calls[g] EXCEPT !.pc = "ValidateMessage.RUnlock"]
                    ELSE [calls[g] EXCEPT !.pc = "ValidateField.RLock",
                                          !.nested = TRUE,
                                          !.left = calls[g].left - 1]]
    /\ UNCHANGED <<mu, nRules>>
    /\ UNCHANGED notCvVars

\* ValidateField under its read lock: the field's rules and cv.globalRules
CvValidateField(g) ==
    /\ calls[g].pc = "ValidateField.rules"
    /\ calls' = [calls EXCEPT ![g].pc = "ValidateField.RUnlock"]
    /\ UNCHANGED <<mu, nRules>>
    /\ UNCHANGED notCvVars

\* the deferred cv.mu.RUnlock() of ValidateField or of ValidateMessage
CvRUnlock(g) ==
    /\ calls[g].pc \in {"ValidateField.RUnlock", "ValidateMessage.RUnlock"}
    /\ mu' = [mu EXCEPT !.readers = mu.readers - 1]
    /\ calls' = [calls EXCEPT ![g] =
                    IF calls[g].pc = "ValidateField.RUnlock" /\ calls[g].nested
                    THEN [calls[g] EXCEPT !.pc = "ValidateMessage.loop",
                                          !.nested = FALSE]
                    ELSE [calls[g] EXCEPT !.pc = "done"]]
    /\ UNCHANGED nRules
    /\ UNCHANGED notCvVars

\* cv.mu.Lock() of AddGlobalRule, first half: no other writer, new readers
\* are stopped from now on
CvLock(g) ==
    /\ calls[g].pc = "AddGlobalRule.Lock"
    /\ mu.writer = NoWriter
    /\ mu' = [mu EXCEPT !.writer = {g}]
    /\ calls' = [calls EXCEPT ![g].pc = "AddGlobalRule.wait"]
    /\ UNCHANGED nRules
    /\ UNCHANGED notCvVars

\* cv.mu.Lock() returns: the readers that held the lock have left
CvLocked(g) ==
    /\ calls[g].pc = "AddGlobalRule.wait"
    /\ mu.readers = 0
    /\ mu' = [mu EXCEPT !.held = TRUE]
    /\ calls' = [calls EXCEPT ![g].pc = "AddGlobalRule.append"]
    /\ UNCHANGED nRules
    /\ UNCHANGED notCvVars

\* cv.globalRules = append(cv.globalRules, rule) and the deferred Unlock
CvAddGlobalRule(g) ==
    /\ calls[g].pc = "AddGlobalRule.append"
    /\ nRules' = nRules + 1
    /\ mu' = [mu EXCEPT !.writer = NoWriter, !.held = FALSE]
    /\ calls' = [calls EXCEPT ![g].pc = "done"]
    /\ UNCHANGED notCvVars

-----------------------------------------------------------------------------
(* The TLV parser (tlv.go).                                                *)

TLVStandard == "TLVStandard"
TLVEMV == "TLVEMV"
TLVASCII == "TLVASCII"

\* NewTLVParser(tlvType) and NewASCIITLVParser(tagLen, lenLen, base)
NewTLVParser(tlvType) ==
    [tlvType |-> tlvType, asciiTagLen |-> 0, asciiLenLen |-> 0,
     asciiLengthBase |-> 0]
NewASCIITLVParser(tagLen, lenLen, base) ==
    [tlvType |-> TLVASCII, asciiTagLen |-> tagLen, asciiLenLen |-> lenLen,
     asciiLengthBase |-> base]

\* TLV{Tag, Length, Value}
TLV(tag, length, value) == [Tag |-> tag, Length |-> length, Value |-> value]

\* the outcome of ParseTLV: the elements and the error, or a run-time panic
tlvParsed(tlvs) == [tlvs |-> tlvs, err |-> Nil, panic |-> FALSE]
tlvFailed(err) == [tlvs |-> <<>>, err |-> err, panic |-> FALSE]
tlvPanic == [tlvs |-> <<>>, err |-> Nil, panic |-> TRUE]

\* length = (length << 8) | int(data[offset]) over the length bytes; a value
\* of 2^24 or more, which exceeds every buffer, is held as 2^24
RECURSIVE shiftIn_lowByteFirst(_)
shiftIn_lowByteFirst(bs) ==
    IF Len(bs) = 0 THEN 0
    ELSE IF Len(bs) = 4 /\ bs[4] > 0 THEN 16777216
    ELSE IF Len(bs) = 4 THEN shiftIn_lowByteFirst(SubSeq(bs, 1, 3))
    ELSE shiftIn_lowByteFirst(Tail(bs)) * 256 + bs[1]

RECURSIVE shiftIn(_)
shiftIn(bs) ==
    IF Len(bs) = 0 THEN 0
    ELSE IF Len(bs) = 4 /\ bs[1] > 0 THEN 16777216
    ELSE IF Len(bs) = 4 THEN shiftIn(Tail(bs))
    ELSE shiftIn(SubSeq(bs, 1, Len(bs) - 1)) * 256 + bs[Len(bs)]

\* parseStandardTLV, from offset on with the elements parsed so far
RECURSIVE parseStandardTLV(_, _, _)
parseStandardTLV(d, offset, buffer) ==
    IF offset >= Len(d) THEN tlvParsed(buffer)
    ELSE IF offset + 1 >= Len(d) THEN tlvFailed("ErrInvalidTLV")
    ELSE LET length == d[offset + 2]
             o == offset + 2
         IN IF o + length > Len(d) THEN tlvFailed("ErrInvalidTLV")
            ELSE parseStandardTLV(d, o + length,
                    Append(buffer, TLV(Slice(d, offset, offset + 1), length,
                                       Slice(d, o, o + length))))

\* parseEMVTLV, from offset on with the elements parsed so far
RECURSIVE parseEMVTLV(_, _, _)
parseEMVTLV(d, offset, buffer) ==
    IF offset >= Len(d) THEN tlvParsed(buffer)
    ELSE
    LET firstByte == d[offset + 1]
        \* the offsets after the first byte where the high bit is 0
        lastTagBytes == {j \in (offset + 1)..(Len(d) - 1) : d[j + 1] < 128}
        truncatedTag == (firstByte % 32) = 31 /\ lastTagBytes = {}
        tagEnd == IF (firstByte % 32) # 31 THEN offset + 1
                  ELSE 1 + CHOOSE j \in lastTagBytes : \A k \in lastTagBytes : j <= k
    IN
    IF truncatedTag THEN tlvFailed("ErrInvalidTLV")
    ELSE IF tagEnd >= Len(d) THEN tlvFailed("ErrInvalidTLV")
    ELSE
    LET lengthByte == d[tagEnd + 1]
        numLengthBytes == lengthByte % 128
        longForm == lengthByte >= 128
        valueStart == IF longForm THEN tagEnd + 1 + numLengthBytes ELSE tagEnd + 1
    IN
    IF longForm /\ (numLengthBytes = 0 \/ numLengthBytes > 4)
    THEN tlvFailed("ErrInvalidTLV")
    ELSE IF longForm /\ valueStart > Len(d) THEN tlvFailed("ErrInvalidTLV")
    ELSE
    LET length == IF longForm THEN shiftIn(Slice(d, tagEnd + 1, valueStart))
                  ELSE lengthByte
    IN
    IF valueStart + length > Len(d) THEN tlvFailed("ErrInvalidTLV")
    ELSE parseEMVTLV(d, valueStart + length,
            Append(buffer, TLV(Slice(d, offset, tagEnd), length,
                               Slice(d, valueStart, valueStart + length))))

\* the value of the digits ds in the base
RECURSIVE digitsValue(_, _)
digitsValue(ds, base) ==
    IF Len(ds) = 0 THEN 0
    ELSE digitsValue(SubSeq(ds, 1, Len(ds) - 1), base) * base
         + fromHexChar(ds[Len(ds)])

\* strconv.ParseInt(s, base, 32) for base 10 or 16 and a string of a few
\* bytes: an optional sign '+' or '-', then one or more digits of the base
ParseInt(str, base) ==
    LET signed == Len(str) > 0 /\ str[1] \in {43, 45}
        digits == IF signed THEN Tail(str) ELSE str
    IN IF Len(digits) = 0 \/ \E i \in 1..Len(digits) : fromHexChar(digits[i]) >= base
       THEN [n |-> 0, err |-> "strconv.ParseInt: invalid syntax"]
       ELSE [n |-> IF signed /\ str[1] = 45 THEN 0 - digitsValue(digits, base)
                   ELSE digitsValue(digits, base),
             err |-> Nil]

\* the loop of parseASCIITLV, from offset on with the elements parsed so far;
\* data[offset : offset+length] with a negative length panics
RECURSIVE parseASCIILoop(_, _, _, _)
parseASCIILoop(tp, d, offset, buffer) ==
    IF offset >= Len(d) THEN tlvParsed(buffer)
    ELSE IF offset + tp.asciiTagLen > Len(d)
    THEN tlvFailed("insufficient data for tag")
    ELSE IF offset + tp.asciiTagLen + tp.asciiLenLen > Len(d)
    THEN tlvFailed("insufficient data for length")
    ELSE
    LET lenAt == offset + tp.asciiTagLen
        valueAt == lenAt + tp.asciiLenLen
        parsed == ParseInt(Slice(d, lenAt, valueAt), tp.asciiLengthBase)
    IN
    IF parsed.err # Nil THEN tlvFailed("invalid ASCII length")
    ELSE IF valueAt + parsed.n > Len(d) THEN tlvFailed("insufficient data for value")
    ELSE IF parsed.n < 0 THEN tlvPanic
    ELSE parseASCIILoop(tp, d, valueAt + parsed.n,
            Append(buffer, TLV(Slice(d, offset, lenAt), parsed.n,
                               Slice(d, valueAt, valueAt + parsed.n))))

\* parseASCIITLV
parseASCIITLV(tp, d) ==
    IF tp.asciiTagLen <= 0 \/ tp.asciiLenLen <= 0
    THEN tlvFailed("ASCII TLV parser not configured")
    ELSE parseASCIILoop(tp, d, 0, <<>>)

\* TLVParser.ParseTLV
ParseTLV(tp, d) ==
    IF tp.tlvType = TLVStandard THEN parseStandardTLV(d, 0, <<>>)
    ELSE IF tp.tlvType = TLVEMV THEN parseEMVTLV(d, 0, <<>>)
    ELSE IF tp.tlvType = TLVASCII THEN parseASCIITLV(tp, d)
    ELSE tlvFailed("unsupported TLV type")

\* the outcome of PackTLV: bytes written, the bytes, the error
tlvPackResult(out) == [n |-> Len(out), out |-> out, err |-> Nil]
tlvPackFailed(err) == [n |-> 0, out |-> <<>>, err |-> err]

\* packStandardTLV, the elements left with the bytes written so far
RECURSIVE packStandardTLV(_, _, _)
packStandardTLV(tlvs, bufLen, out) ==
    IF Len(tlvs) = 0 THEN tlvPackResult(out)
    ELSE LET tlv == Head(tlvs)
         IN IF Len(out) + Len(tlv.Tag) + 1 + Len(tlv.Value) > bufLen
            THEN tlvPackFailed("ErrBufferTooSmall")
            ELSE IF Len(tlv.Tag) # 1
            THEN tlvPackFailed("standard TLV tag must be 1 byte")
            ELSE IF Len(tlv.Value) > 255
            THEN tlvPackFailed("standard TLV value too long")
            ELSE packStandardTLV(Tail(tlvs), bufLen,
                    out \o tlv.Tag \o <<Len(tlv.Value)>> \o tlv.Value)

\* the bytes of temp, least significant first
RECURSIVE lengthBytes_lowByteFirst(_)
lengthBytes_lowByteFirst(temp) ==
    IF temp > 0 THEN <<temp % 256>> \o lengthBytes_lowByteFirst(temp \div 256)
    ELSE <<>>

\* lengthBytes of packEMVTLV: the bytes of temp, most significant first
RECURSIVE lengthBytes(_)
lengthBytes(temp) ==
    IF temp > 0 THEN Append(lengthBytes(temp \div 256), temp % 256) ELSE <<>>

\* packEMVTLV, the elements left with the bytes written so far
RECURSIVE packEMVTLV(_, _, _)
packEMVTLV(tlvs, bufLen, out) ==
    IF Len(tlvs) = 0 THEN tlvPackResult(out)
    ELSE
    LET tlv == Head(tlvs)
        valueLen == Len(tlv.Value)
        lengthField == IF valueLen < 128 THEN <<valueLen>>
                       ELSE <<128 + Len(lengthBytes(valueLen))>>
                            \o lengthBytes(valueLen)
    IN
    IF Len(out) + Len(tlv.Tag) > bufLen \/
       Len(out) + Len(tlv.Tag) + Len(lengthField) > bufLen \/
       Len(out) + Len(tlv.Tag) + Len(lengthField) + valueLen > bufLen
    THEN tlvPackFailed("ErrBufferTooSmall")
    ELSE packEMVTLV(Tail(tlvs), bufLen, out \o tlv.Tag \o lengthField \o tlv.Value)

\* pow(base, lenLen) of helper.go
RECURSIVE pow(_, _)
pow(a, b) == IF b <= 0 THEN 1 ELSE a * pow(a, b - 1)

\* fmt.Sprintf("%0<width>d" or "%0<width>X", v) for 0 <= v < base^width
RECURSIVE formatLength(_, _, _)
formatLength(v, base, width) ==
    IF width = 0 THEN <<>>
    ELSE Append(formatLength(v \div base, base, width - 1),
                hexTableUpper(v % base))

\* the loop of packASCIITLV; every base other than 16 is written in decimal
RECURSIVE packASCIILoop(_, _, _, _)
packASCIILoop(tp, tlvs, bufLen, out) ==
    IF Len(tlvs) = 0 THEN tlvPackResult(out)
    ELSE
    LET tlv == Head(tlvs)
        valueLen == Len(tlv.Value)
        writeBase == IF tp.asciiLengthBase = 16 THEN 16 ELSE 10
        maxLen == pow(tp.asciiLengthBase, tp.asciiLenLen) - 1
    IN
    IF Len(out) + tp.asciiTagLen + tp.asciiLenLen + valueLen > bufLen
    THEN tlvPackFailed("ErrBufferTooSmall")
    ELSE IF Len(tlv.Tag) # tp.asciiTagLen
    THEN tlvPackFailed("ASCII TLV tag length mismatch")
    ELSE IF valueLen > maxLen
    THEN tlvPackFailed("ASCII TLV value length exceeds maximum")
    ELSE packASCIILoop(tp, Tail(tlvs), bufLen,
            out \o tlv.Tag \o formatLength(valueLen, writeBase, tp.asciiLenLen)
                \o tlv.Value)

\* packASCIITLV
packASCIITLV(tp, tlvs, bufLen) ==
    IF tp.asciiTagLen <= 0 \/ tp.asciiLenLen <= 0
    THEN tlvPackFailed("ASCII TLV parser not configured")
    ELSE packASCIILoop(tp, tlvs, bufLen, <<>>)

\* TLVParser.PackTLV into a buffer of bufLen bytes
PackTLV(tp, tlvs, bufLen) ==
    IF tp.tlvType = TLVStandard THEN packStandardTLV(tlvs, bufLen, <<>>)
    ELSE IF tp.tlvType = TLVEMV THEN packEMVTLV(tlvs, bufLen, <<>>)
    ELSE IF tp.tlvType = TLVASCII THEN packASCIITLV(tp, tlvs, bufLen)
    ELSE tlvPackFailed("unsupported TLV type")

-----------------------------------------------------------------------------
(* The TLV scenario: a parser parses received bytes and packs the elements *)
(* again, or packs elements the caller built and parses the bytes.         *)

TlvParsers ==
    {NewTLVParser(TLVEMV), NewASCIITLVParser(2, 2, 10), NewASCIITLVParser(1, 1, 16)}

\* the longest received buffer made of the bytes below
MaxTlvLen == 5

\* the bytes of received buffers: 0x00, 0x01, 0x1F (a tag that continues),
\* 0x80 (long form, n = 0), 0x82 (n = 2), 0x85 (n = 5), and the characters
\* 'A', '0', '1', 'F', '-', '+'
EMVBytes == {0, 1, 31, 128, 130, 133}
ASCIIBytes == {65, 48, 49, 70, 45, 43}

Repeat(b, n) == [i \in 1..n |-> b]

\* 9F 33 03 60 08 08 5A 08 41 11 11 11 11 11 11 11, and buffers with the
\* long forms of 1, 3 and 4 length bytes
EMVExample ==
    <<159, 51, 3, 96, 8, 8, 90, 8, 65, 17, 17, 17, 17, 17, 17, 17>>
EMVLongForms ==
    {<<90, 129, 2, 7, 7>>, <<90, 129, 2, 7>>, <<90, 131, 0, 0, 1, 7>>,
     <<90, 132, 0, 0, 0, 1, 7>>, <<90, 132, 0, 0, 0>>, <<90, 132, 1, 0, 0, 0, 7>>,
     <<159, 129, 51, 1, 7>>, <<90, 129, 128>> \o Repeat(7, 128)}

\* "AL04DATA", "AL04DATAXY00", "AL04DAT", "AL-1DATA", "AL+4DATA"
ASCIIExamples ==
    {<<65, 76, 48, 52, 68, 65, 84, 65>>,
     <<65, 76, 48, 52, 68, 65, 84, 65, 88, 89, 48, 48>>,
     <<65, 76, 48, 52, 68, 65, 84>>,
     <<65, 76, 45, 49, 68, 65, 84, 65>>,
     <<65, 76, 43, 52, 68, 65, 84, 65>>}

ASCIIBuffers ==
    ASCIIExamples \cup UNION {[1..n -> ASCIIBytes] : n \in 0..(MaxTlvLen - 1)}
EMVBuffers ==
    {EMVExample} \cup EMVLongForms
    \cup UNION {[1..n -> EMVBytes] : n \in 0..MaxTlvLen}

\* the elements the caller builds: BER tags 5A, 9F33, 1F8101 and the
\* malformed tags (empty), 9F, 5A01; tags "AL", "A"; values of 0, 1, 4, 15,
\* 16, 100, 127, 128 and 500 bytes (the long ones of FF bytes, which read
\* as a tag that never ends: a parse that starts inside one stops at once)
TlvElements ==
    {TLV(<<90>>, 0, <<>>), TLV(<<90>>, 1, <<7>>),
     TLV(<<159, 51>>, 127, Repeat(255, 127)),
     TLV(<<159, 51>>, 128, Repeat(255, 128)),
     TLV(<<31, 129, 1>>, 500, Repeat(255, 500)),
     TLV(<<>>, 1, <<7>>), TLV(<<159>>, 1, <<7>>), TLV(<<90, 1>>, 1, <<7>>),
     TLV(<<65, 76>>, 4, <<68, 65, 84, 65>>), TLV(<<65, 76>>, 0, <<>>),
     TLV(<<65, 76>>, 100, Repeat(88, 100)),
     TLV(<<65>>, 15, Repeat(88, 15)), TLV(<<65>>, 16, Repeat(88, 16))}

\* the most elements in a list the caller builds
MaxTlvElems == 2

TlvLists == UNION {[1..n -> TlvElements] : n \in 0..MaxTlvElems}

\* len(buf) handed to PackTLV
TlvBufLens == {3, 2048}

NoTlvIn == [from |-> "none", data |-> <<>>, tlvs |-> <<>>, err |-> Nil,
            panic |-> FALSE]
NoTlvOut == [bufLen |-> 0, n |-> 0, out |-> <<>>, err |-> Nil]

TlvIdle ==
    /\ tlvParser = NewTLVParser(TLVStandard)
    /\ tlvIn = NoTlvIn
    /\ tlvOut = NoTlvOut
    /\ tlvBack = tlvParsed(<<>>)
    /\ tlvPc = "idle"

TlvInit ==
    /\ tlvParser \in TlvParsers
    /\ tlvIn = NoTlvIn
    /\ tlvOut = NoTlvOut
    /\ tlvBack = tlvParsed(<<>>)
    /\ tlvPc = "new"

\* tlvs, err := tlvParser.ParseTLV(d) for a received buffer d
TlvParse ==
    /\ tlvPc = "new"
    /\ \E d \in (IF tlvParser.tlvType = TLVASCII THEN ASCIIBuffers ELSE EMVBuffers) :
          LET r == ParseTLV(tlvParser, d)
          IN tlvIn' = [from |-> "ParseTLV", data |-> d, tlvs |-> r.tlvs,
                       err |-> r.err, panic |-> r.panic]
    /\ tlvPc' = "elements"
    /\ UNCHANGED <<tlvParser, tlvOut, tlvBack>>
    /\ UNCHANGED notTlvVars

\* the caller builds the elements
TlvBuild ==
    /\ tlvPc = "new"
    /\ \E tlvs \in TlvLists :
          tlvIn' = [from |-> "caller", data |-> <<>>, tlvs |-> tlvs, err |-> Nil,
                    panic |-> FALSE]
    /\ tlvPc' = "elements"
    /\ UNCHANGED <<tlvParser, tlvOut, tlvBack>>
    /\ UNCHANGED notTlvVars

\* n, err := tlvParser.PackTLV(tlvs, buf)
TlvPack(bufLen) ==
    /\ tlvPc = "elements"
    /\ tlvIn.err = Nil /\ ~tlvIn.panic
    /\ LET r == PackTLV(tlvParser, tlvIn.tlvs, bufLen)
       IN tlvOut' = [bufLen |-> bufLen, n |-> r.n, out |-> r.out, err |-> r.err]
    /\ tlvPc' = "packed"
    /\ UNCHANGED <<tlvParser, tlvIn, tlvBack>>
    /\ UNCHANGED notTlvVars

\* tlvParser.ParseTLV(buf[:n]) of the bytes PackTLV wrote
TlvParsePacked ==
    /\ tlvPc = "packed"
    /\ tlvOut.err = Nil
    /\ tlvBack' = ParseTLV(tlvParser, tlvOut.out)
    /\ tlvPc' = "back"
    /\ UNCHANGED <<tlvParser, tlvIn, tlvOut>>
    /\ UNCHANGED notTlvVars

-----------------------------------------------------------------------------
(* The storage behind field data.  Unpack and SetField([]byte) make        *)
(* field.data a slice of the caller's bytes; SetInt and Clone allocate.    *)
(* buf is the index of the caller's slice in buffers, 0 for storage the    *)
(* library allocated; off is the offset of the field data in it; cap is    *)
(* the capacity of an allocation (that of a slice of the caller's bytes    *)
(* reaches to the end of them).  backing maps the numbers of the fields    *)
(* whose data has been set to the storage of the data.                     *)

NoBacking == [buf |-> 0, off |-> 0, cap |-> 0]
Allocated(n) == [buf |-> 0, off |-> 0, cap |-> n]

MemIdle ==
    /\ buffers = <<>>
    /\ backing = [i \in {} |-> NoBacking]
    /\ cloneBacking = [i \in {} |-> NoBacking]
    /\ cloned = FALSE

\* a nil error, as ProcessBatch holds it
NilError == [obj |-> 0, field |-> 0, code |-> Nil]

\* no ProcessBatch call
NoBatch ==
    [dataSlice |-> <<>>, concurrency |-> 0, cancelled |-> FALSE, i |-> 0,
     pc |-> "idle",
     ret |-> [isNil |-> TRUE, results |-> <<>>, err |-> NilError]]

BatchIdle ==
    /\ messagePool = {}
    /\ messages = <<>>
    /\ workers = <<>>
    /\ semaphore = 0
    /\ results = <<>>
    /\ errors = <<>>
    /\ batch = NoBatch

-----------------------------------------------------------------------------
(* The BitmapManager scenario: any sequence of SetField, ClearField and    *)
(* Reset on one manager, then PackBitmap and UnpackBitmap of the bytes     *)
(* written into a fresh manager.                                           *)

\* field numbers handed to SetField and ClearField: both ends of each block,
\* the secondary indicator, and the two nearest numbers out of range
BmFieldNums == {0, 1, 2, 64, 65, 70, 128, 129}

\* len(buf) handed to PackBitmap
BmBufLens == {16, DefaultBufferSize}

NoWire == [enc |-> BitmapEncodingHex, bufLen |-> 0, out |-> <<>>, err |-> Nil]
NoBack == [bm |-> NewBitmapManager, n |-> 0, err |-> Nil]

BmIdle ==
    /\ bm = NewBitmapManager
    /\ bmWire = NoWire
    /\ bmBack = NoBack
    /\ bmPc = "idle"

BmInit ==
    /\ bm = NewBitmapManager
    /\ bmWire = NoWire
    /\ bmBack = NoBack
    /\ bmPc = "edit"

BmSetField(n) ==
    /\ bmPc = "edit"
    /\ bm' = BitmapManager_SetField(bm, n).bm
    /\ UNCHANGED <<bmWire, bmBack, bmPc>>
    /\ UNCHANGED notBmVars

BmClearField(n) ==
    /\ bmPc = "edit"
    /\ bm' = BitmapManager_ClearField(bm, n).bm
    /\ UNCHANGED <<bmWire, bmBack, bmPc>>
    /\ UNCHANGED notBmVars

BmReset ==
    /\ bmPc = "edit"
    /\ bm' = BitmapManager_Reset(bm)
    /\ UNCHANGED <<bmWire, bmBack, bmPc>>
    /\ UNCHANGED notBmVars

BmPackBitmap(enc, bufLen) ==
    /\ bmPc = "edit"
    /\ LET p == PackBitmap(bm, bufLen, enc)
       IN bmWire' = [enc |-> enc, bufLen |-> bufLen, out |-> p.out, err |-> p.err]
    /\ bmPc' = "packed"
    /\ UNCHANGED <<bm, bmBack>>
    /\ UNCHANGED notBmVars

BmUnpackBitmap ==
    /\ bmPc = "packed"
    /\ bmWire.err = Nil
    /\ bmBack' = UnpackBitmap(NewBitmapManager, bmWire.out, bmWire.enc)
    /\ bmPc' = "unpacked"
    /\ UNCHANGED <<bm, bmWire>>
    /\ UNCHANGED notBmVars


-----------------------------------------------------------------------------
(* The schema and the inputs of the Message scenarios.                     *)

\* A packager built with NewPackagerConfig(WithFieldConfig(n, c)...): one
\* field of every length kind, numeric and alphanumeric fixed fields, and a
\* field of the secondary bitmap.  Fields 1 and 5 are not configured.
SchemaFields ==
    (2 :> FieldConfig(FieldTypeN, LengthLLVAR, 1))
    @@ (3 :> FieldConfig(FieldTypeN, LengthFixed, 2))
    @@ (4 :> FieldConfig(FieldTypeANS, LengthFixed, 2))
    @@ (48 :> FieldConfig(FieldTypeANS, LengthLLLVAR, 999))
    @@ (66 :> FieldConfig(FieldTypeN, LengthFixed, 1))
    @@ (127 :> FieldConfig(FieldTypeANS, LengthLLLLVAR, 9999))

PackagerConfig(encoding, header) ==
    [Fields |-> SchemaFields,
     BitmapEncoding |-> encoding,
     LengthIndicator |-> [Type |-> LengthIndicatorNone, Length |-> 0],
     Header |-> header]

PkHex ==
    NewCompiledPackager(PackagerConfig(BitmapEncodingHex,
                                       [Type |-> HeaderNone, Length |-> 0]))
PkBinary ==
    NewCompiledPackager(PackagerConfig(BitmapEncodingBinary,
                                       [Type |-> HeaderNone, Length |-> 0]))
PkHeader ==
    NewCompiledPackager(PackagerConfig(BitmapEncodingHex,
                                       [Type |-> HeaderBinary, Length |-> 2]))

\* a packager with a 4-digit ASCII decimal message length indicator
PkLength ==
    NewCompiledPackager(
        [PackagerConfig(BitmapEncodingHex, [Type |-> HeaderNone, Length |-> 0])
            EXCEPT !.LengthIndicator = [Type |-> LengthIndicatorASCII,
                                        Length |-> 4]])

\* "0200", "02A0", and a value of three bytes
MtiDigits == <<48, 50, 48, 48>>
MtiLetter == <<48, 50, 65, 48>>
MtiShort == <<48, 50, 48>>

\* the longest run of bytes after the bitmap in a generated buffer
MaxTail == 4

\* the bytes '0', '1', '2' of the runs after the bitmap
TailBytes == {48, 49, 50}
Tails == UNION {[1..n -> TailBytes] : n \in 0..MaxTail}

\* the sets of bitmap bits of the generated buffers
BitmapSets ==
    {{}, {2}, {3}, {4}, {2, 3}, {2, 4}, {3, 4}, {2, 3, 4}, {5}, {48},
     {1}, {1, 66}, {1, 2, 66}, {1, 127}, {1, 3, 127}}

\* the byte of a bitmap block holding bits first..first+7 of the set S
blockByte(S, first) ==
    (IF first \in S THEN 128 ELSE 0) + (IF first + 1 \in S THEN 64 ELSE 0)
    + (IF first + 2 \in S THEN 32 ELSE 0) + (IF first + 3 \in S THEN 16 ELSE 0)
    + (IF first + 4 \in S THEN 8 ELSE 0) + (IF first + 5 \in S THEN 4 ELSE 0)
    + (IF first + 6 \in S THEN 2 ELSE 0) + (IF first + 7 \in S THEN 1 ELSE 0)

\* the binary bitmap blocks of the set S: the secondary follows iff 1 \in S
binaryBlocks(S) ==
    [i \in 1..8 |-> blockByte(S, 8 * (i - 1) + 1)]
    \o (IF 1 \in S THEN [i \in 1..8 |-> blockByte(S, 64 + 8 * (i - 1) + 1)]
        ELSE <<>>)

toLower(bytes) ==
    [i \in 1..Len(bytes) |-> IF bytes[i] >= 65 /\ bytes[i] <= 70
                             THEN bytes[i] + 32 ELSE bytes[i]]

\* bitmaps on the wire under an encoding: well formed ones (upper and lower
\* case in hex), one cut short, one with a byte that is no hex digit, and one
\* whose bit 1 announces a secondary block that does not follow
WireBitmaps(encoding) ==
    IF encoding = BitmapEncodingHex
    THEN {encodeHexUpper(binaryBlocks(S)) : S \in BitmapSets}
         \cup {toLower(encodeHexUpper(binaryBlocks(S))) : S \in BitmapSets}
         \cup {[i \in 1..15 |-> 48],
               [i \in 1..16 |-> IF i = 4 THEN 71 ELSE 48],
               encodeHexUpper(<<192, 0, 0, 0, 0, 0, 0, 0>>)}
    ELSE {binaryBlocks(S) : S \in BitmapSets}
         \cup {[i \in 1..7 |-> 0], <<192, 0, 0, 0, 0, 0, 0, 0>>}

DecodeLevels == {ValidationNone, ValidationStrict}

\* the (packager, validation level, buffer) triples handed to Unpack
DecodeInputs ==
    {[pk |-> pk, level |-> level, data |-> MtiDigits \o w \o t] :
        pk \in {PkHex}, level \in DecodeLevels,
        w \in WireBitmaps(BitmapEncodingHex), t \in Tails}
    \cup {[pk |-> PkBinary, level |-> ValidationNone, data |-> MtiDigits \o w \o t] :
        w \in WireBitmaps(BitmapEncodingBinary), t \in Tails}
    \cup {[pk |-> PkHeader, level |-> ValidationNone,
           data |-> <<1, 2>> \o MtiDigits \o encodeHexUpper(binaryBlocks(S)) \o t] :
        S \in {{}, {2, 3}, {1, 2, 66}}, t \in Tails}
    \cup {[pk |-> pk, level |-> ValidationNone,
           data |-> mti \o encodeHexUpper(binaryBlocks(S)) \o t] :
        pk \in {PkHex, NilPackager}, mti \in {MtiDigits, MtiLetter},
        S \in {{}, {3}}, t \in Tails}
    \cup {[pk |-> pk, level |-> ValidationNone, data |-> d] :
        pk \in {PkHex, PkHeader}, d \in {<<>>, MtiShort, MtiDigits, <<1, 2>> \o MtiShort}}

\* len(buf) handed to Pack
PackBufLens == {24, DefaultBufferSize}

\* field numbers handed to GetString and GetBytes
ReadFieldNums == {2, 3, 48, 66, 127}

NoRes == [op |-> "none", err |-> NoError, offset |-> 0]
NoGot == [op |-> "none", field |-> 0, value |-> <<>>, panic |-> FALSE,
          err |-> NoError]
NoPacked == [bufLen |-> 0, n |-> 0, out |-> <<>>, segs |-> <<>>, err |-> NoError]
NoUnpacked == [m |-> ResetMessage, err |-> NoError, offset |-> 0]

MsgIdle ==
    /\ msg = ResetMessage
    /\ data = <<>>
    /\ res = NoRes
    /\ got = NoGot
    /\ packed = NoPacked
    /\ back = NoUnpacked
    /\ steps = 0
    /\ pc = "idle"

-----------------------------------------------------------------------------
(* The decode scenario: Unpack of a buffer into a new Message, then reads  *)
(* of its fields and Pack of the Message.                                  *)

DecInit ==
    /\ \E in \in DecodeInputs :
           /\ msg = NewMessage(in.pk, <<>>, in.level)
           /\ data = in.data
    /\ res = NoRes
    /\ got = NoGot
    /\ packed = NoPacked
    /\ back = NoUnpacked
    /\ steps = 0
    /\ pc = "new"

DecUnpack ==
    /\ pc = "new"
    /\ LET u == Unpack(msg, data)
       IN /\ msg' = u.m
          /\ res' = [op |-> "Unpack", err |-> u.err, offset |-> u.offset]
    /\ pc' = "unpacked"
    /\ UNCHANGED <<data, got, packed, back, steps>>
    /\ UNCHANGED notMsgVars

DecGetString(n) ==
    /\ pc = "unpacked"
    /\ res.err.code = Nil
    /\ LET g == GetString(msg, n)
       IN got' = [op |-> "GetString", field |-> n, value |-> g.value,
                  panic |-> g.panic, err |-> g.err]
    /\ pc' = "read"
    /\ UNCHANGED <<msg, data, res, packed, back, steps>>
    /\ UNCHANGED notMsgVars

DecGetBytes(n) ==
    /\ pc = "unpacked"
    /\ res.err.code = Nil
    /\ LET g == GetBytes(msg, n)
       IN got' = [op |-> "GetBytes", field |-> n, value |-> g.value,
                  panic |-> g.panic, err |-> g.err]
    /\ pc' = "read"
    /\ UNCHANGED <<msg, data, res, packed, back, steps>>
    /\ UNCHANGED notMsgVars

DecPack(bufLen) ==
    /\ pc = "unpacked"
    /\ res.err.code = Nil
    /\ LET p == Pack(msg, bufLen)
       IN packed' = [bufLen |-> bufLen, n |-> p.n, out |-> p.out,
                     segs |-> p.segs, err |-> p.err]
    /\ pc' = "packed"
    /\ UNCHANGED <<msg, data, res, got, back, steps>>
    /\ UNCHANGED notMsgVars

DecNext ==
    \/ DecUnpack
    \/ \E n \in ReadFieldNums : DecGetString(n)
    \/ \E n \in ReadFieldNums : DecGetBytes(n)
    \/ \E bufLen \in PackBufLens : DecPack(bufLen)

DecodeInit == BmIdle /\ LiIdle /\ SvIdle /\ CvIdle /\ TlvIdle /\ MemIdle /\ BatchIdle /\ DecInit

SpecDecode == DecodeInit /\ [][DecNext]_vars

-----------------------------------------------------------------------------
(* The FIXED case of Pack in the schema-with-JSON implementation           *)
(* (iso8583.go): the fieldLen bytes written for fieldData.                 *)

legacyPackFixed(fieldType, fieldLen, fieldData) ==
    [i \in 1..fieldLen |->
        IF i <= Len(fieldData) THEN fieldData[i]
        ELSE IF fieldType = FieldTypeN THEN 48 ELSE 32]

-----------------------------------------------------------------------------
(* The encode scenario: a Message built with SetMTI and SetField, Pack of  *)
(* it, and Unpack of the packed bytes into a new Message of the packager.  *)

\* the most SetField calls made on the Message
MaxSets == 2

\* a value of n bytes '1'
Ones(n) == [i \in 1..n |-> 49]

\* an interface{} value: its dynamic type, its bytes when a string or a
\* []byte, its number when an int
StringValue(v) == [kind |-> "string", v |-> v, i |-> 0]
BytesValue(v) == [kind |-> "bytes", v |-> v, i |-> 0]
IntValue(i) == [kind |-> "int", v |-> <<>>, i |-> i]
BoolValue == [kind |-> "bool", v |-> <<>>, i |-> 0]

\* the (field number, value) pairs handed to SetField: values at, below and
\* above the length of each kind of field, a value longer than an LLVAR
\* prefix can express, fields without configuration, numbers out of range
\* and a value of an unsupported type
SetFieldInputs ==
    {<<2, StringValue(<<>>)>>, <<2, StringValue(Ones(1))>>,
     <<2, StringValue(Ones(2))>>, <<2, StringValue(Ones(100))>>,
     <<3, StringValue(<<49, 50>>)>>, <<3, StringValue(Ones(1))>>,
     <<3, StringValue(Ones(3))>>, <<3, BytesValue(<<50, 49>>)>>,
     <<4, StringValue(<<65, 66>>)>>, <<4, StringValue(<<65>>)>>,
     <<48, StringValue(Ones(1))>>, <<48, StringValue(Ones(25))>>,
     <<66, IntValue(7)>>,
     <<127, StringValue(Ones(1))>>,
     <<1, StringValue(Ones(1))>>, <<5, StringValue(Ones(1))>>,
     <<0, StringValue(Ones(1))>>, <<3, BoolValue>>}

\* the (packager, header option) pairs of the Messages built
EncodeInputs ==
    {[pk |-> PkHex, h |-> <<>>], [pk |-> PkBinary, h |-> <<>>],
     [pk |-> PkHeader, h |-> <<>>], [pk |-> PkHeader, h |-> <<1, 2>>],
     [pk |-> PkHex, h |-> <<1, 2>>], [pk |-> PkLength, h |-> <<>>]}

EncInit ==
    /\ \E in \in EncodeInputs : msg = NewMessage(in.pk, in.h, ValidationNone)
    /\ data = <<>>
    /\ res = NoRes
    /\ got = NoGot
    /\ packed = NoPacked
    /\ back = NoUnpacked
    /\ steps = 0
    /\ pc = "build"

EncSetMTI(mti) ==
    /\ pc = "build"
    /\ LET r == SetMTI(msg, mti)
       IN /\ msg' = r.m
          /\ res' = [op |-> "SetMTI", err |-> r.err, offset |-> 0]
    /\ UNCHANGED <<data, got, packed, back, steps, pc>>
    /\ UNCHANGED notMsgVars

EncSetField(n, value) ==
    /\ pc = "build"
    /\ steps < MaxSets
    /\ LET r == Message_SetField(msg, n, value)
       IN /\ msg' = r.m
          /\ res' = [op |-> "SetField", err |-> r.err, offset |-> 0]
    /\ steps' = steps + 1
    /\ UNCHANGED <<data, got, packed, back, pc>>
    /\ UNCHANGED notMsgVars

\* the FIXED field n of the Message as the schema-with-JSON Pack writes it
EncLegacyPackFixed(n) ==
    /\ pc = "build"
    /\ ~msg.packager.isNil
    /\ FieldConfigured(msg.packager, n)
    /\ msg.packager.fieldConfigs[n].Length = LengthFixed
    /\ isFieldPresent(msg, n)
    /\ LET config == msg.packager.fieldConfigs[n]
       IN got' = [op |-> "legacyPackFixed", field |-> n,
                  value |-> legacyPackFixed(config.Type, config.MaxLength,
                                            Field_Bytes(msg.fields[n])),
                  panic |-> FALSE, err |-> NoError]
    /\ pc' = "legacy"
    /\ UNCHANGED <<msg, data, res, packed, back, steps>>
    /\ UNCHANGED notMsgVars

EncPack(bufLen) ==
    /\ pc = "build"
    /\ LET p == Pack(msg, bufLen)
       IN packed' = [bufLen |-> bufLen, n |-> p.n, out |-> p.out,
                     segs |-> p.segs, err |-> p.err]
    /\ pc' = "packed"
    /\ UNCHANGED <<msg, data, res, got, back, steps>>
    /\ UNCHANGED notMsgVars

EncUnpack ==
    /\ pc = "packed"
    /\ packed.err.code = Nil
    /\ back' = Unpack(NewMessage(msg.packager, <<>>, msg.validationLevel),
                      packed.out)
    /\ pc' = "back"
    /\ UNCHANGED <<msg, data, res, got, packed, steps>>
    /\ UNCHANGED notMsgVars

EncNext ==
    \/ \E mti \in {MtiDigits, MtiLetter, MtiShort} : EncSetMTI(mti)
    \/ \E in \in SetFieldInputs : EncSetField(in[1], in[2])
    \/ \E bufLen \in PackBufLens : EncPack(bufLen)
    \/ EncUnpack
    \/ \E n \in {3, 4, 66} : EncLegacyPackFixed(n)

EncodeInit == BmIdle /\ LiIdle /\ SvIdle /\ CvIdle /\ TlvIdle /\ MemIdle /\ BatchIdle /\ EncInit

SpecEncode == EncodeInit /\ [][EncNext]_vars

-----------------------------------------------------------------------------
(* Reset, Clone, GetPresentFields and SetFieldWithWidth of Message         *)
(* (message.go), and Clone of Field (field.go).                            *)

\* Message.Reset and Message.reset
Message_Reset(m) == ResetMessage

\* Message.GetPresentFields, as the sequence it returns
Message_GetPresentFields(m) ==
    SelectSeq(Range(1, 128), LAMBDA n : isFieldPresent(m, n))

\* Message.SetFieldWithWidth
SetFieldWithWidth(m, fieldNum, value, width) ==
    IF fieldNum < 1 \/ fieldNum > 128
    THEN [m |-> m, err |-> FieldErr(fieldNum, "ErrInvalidField")]
    ELSE IF value.kind # "int" THEN Message_SetField(m, fieldNum, value)
    ELSE LET g == Field_SetInt(m.fields[fieldNum], value.i, FieldTypeN, width)
             m1 == setFieldPresent([m EXCEPT !.fields[fieldNum] = g], fieldNum)
         IN [m |-> [m1 EXCEPT !.bitmap =
                        BitmapManager_SetField(m1.bitmap, fieldNum).bm],
             err |-> NoError]

\* the backing of field n, and the backings with that of field n set to b
backingOf(bk, n) == IF n \in DOMAIN bk THEN bk[n] ELSE NoBacking
withBacking(bk, n, b) ==
    [i \in (DOMAIN bk) \cup {n} |-> IF i = n THEN b ELSE bk[i]]

\* a copy of the field whose data is the slice of the original
Field_Clone_sharing(f, b) ==
    [field |-> f, backing |-> b]

\* Field.Clone of a field whose data has the backing b: the copy and the
\* backing of its data, make([]byte, f.length)
Field_Clone(f, b) ==
    [field |-> [data |-> IF f.dataNil THEN <<>> ELSE Slice(f.data, 0, f.length),
                dataNil |-> f.dataNil,
                length |-> f.length,
                fieldType |-> f.fieldType,
                parsed |-> f.parsed],
     backing |-> IF f.dataNil THEN NoBacking ELSE Allocated(f.length)]

\* the loop of Clone over the present fields todo: clone.fields[i] =
\* *m.fields[i].Clone() and clone.bitmap.SetField(i + 1)
RECURSIVE cloneFields(_, _, _, _)
cloneFields(c, m, bk, todo) ==
    IF Len(todo) = 0 THEN c
    ELSE LET n == Head(todo)
             copy == Field_Clone(m.fields[n], backingOf(bk, n))
         IN cloneFields(
                [m |-> [c.m EXCEPT !.fields[n] = copy.field,
                                   !.bitmap = BitmapManager_SetField(@, n).bm],
                 backing |-> withBacking(c.backing, n, copy.backing)],
                m, bk, Tail(todo))

\* Message.Clone of a Message whose fields have the backing bk: the clone
\* and the backing of its fields
Clone(m, bk) ==
    cloneFields([m |-> [ResetMessage EXCEPT
                           !.mti = m.mti,
                           !.validationLevel = m.validationLevel,
                           !.fieldPresence = m.fieldPresence,
                           !.packager = m.packager,
                           !.header = m.header],
                 backing |-> [i \in {} |-> NoBacking]],
                m, bk, Message_GetPresentFields(m))

\* cap(field.data) of a field with the backing b
capOf(bufs, b) == IF b.buf = 0 THEN b.cap ELSE Len(bufs[b.buf]) - b.off

\* copy(dst[off:], src)
written(dst, off, src) ==
    [i \in 1..Len(dst) |->
        IF i > off /\ i <= off + Len(src) THEN src[i - off] ELSE dst[i]]

\* the fields as they read once the caller's slices hold bufs
RECURSIVE refreshFields(_, _, _, _)
refreshFields(fields, bufs, bk, todo) ==
    IF todo = {} THEN fields
    ELSE LET n == CHOOSE n \in todo : TRUE
         IN refreshFields(
                [fields EXCEPT ![n].data =
                    SubSeq(bufs[bk[n].buf], bk[n].off + 1, bk[n].off + Len(@))],
                bufs, bk, todo \ {n})

\* the Message as it reads once the caller's slices hold bufs: the data of
\* every field that is a slice of them
Refresh(m, bufs, bk) ==
    [m EXCEPT !.fields =
        refreshFields(@, bufs, bk, {n \in DOMAIN bk : bk[n].buf # 0})]

\* the storage after SetField or SetFieldWithWidth has made the field f of
\* field number fieldNum in a Message with the backing bk.  A []byte value
\* is referenced; SetInt writes the digits into field.data when its capacity
\* allows and allocates otherwise; the bytes of a string are storage no
\* caller can write to.
stored(f, fieldNum, value, bufs, bk) ==
    LET b == backingOf(bk, fieldNum)
    IN IF value.kind = "int"
       THEN IF capOf(bufs, b) >= f.length
            THEN [buffers |-> IF b.buf = 0 THEN bufs
                              ELSE [bufs EXCEPT ![b.buf] = written(@, b.off, f.data)],
                  backing |-> bk]
            ELSE [buffers |-> bufs,
                  backing |-> withBacking(bk, fieldNum, Allocated(f.length))]
       ELSE IF value.kind = "bytes"
       THEN [buffers |-> Append(bufs, value.v),
             backing |-> withBacking(bk, fieldNum,
                             [buf |-> Len(bufs) + 1, off |-> 0, cap |-> 0])]
       ELSE [buffers |-> bufs,
             backing |-> withBacking(bk, fieldNum,
                             IF f.dataNil THEN NoBacking ELSE Allocated(f.length))]

\* the backing after parseField has set the fields todo from offset on:
\* field.data = data[newOffset : newOffset+fieldLength] of the slice id
RECURSIVE fieldSlices(_, _, _, _, _, _)
fieldSlices(m, d, todo, offset, bk, id) ==
    IF Len(todo) = 0 THEN bk
    ELSE LET p == parseField(m, Head(todo), d, offset)
         IN IF p.err # Nil THEN bk
            ELSE fieldSlices(p.m, d, Tail(todo), p.offset,
                     withBacking(bk, Head(todo),
                         [buf |-> id,
                          off |-> p.offset - p.m.fields[Head(todo)].length,
                          cap |-> 0]),
                     id)

\* the backing after Unpack(d), d the slice id, of a Message of a packager
\* without header
unpackSlices(m, d, bk, id) ==
    IF Len(d) < 4 THEN bk
    ELSE LET encoding == IF m.packager.isNil THEN BitmapEncodingHex
                         ELSE m.packager.bitmapEncoding
             u == UnpackBitmap(m.bitmap, Slice(d, 4, Len(d)), encoding)
         IN IF u.err # Nil THEN bk
            ELSE fieldSlices([m EXCEPT !.bitmap = u.bm], d,
                             SelectSeq(Range(2, 128),
                                       LAMBDA n : IsFieldSet(u.bm, n)),
                             4 + u.n, bk, id)

-----------------------------------------------------------------------------
(* The lifecycle scenario: one Message of a packager on which the caller   *)
(* calls SetField, SetFieldWithWidth, Unpack and Reset in any order, of    *)
(* which it takes a Clone, and whose input slices it overwrites; then it   *)
(* reads the present fields or packs the Message.                          *)

\* the most calls on the Message and writes to its input slices
MaxOps == 3

\* (field number, value) pairs: a string for 1, a []byte for 48, integers
\* for 3 and 66
LcSetInputs ==
    {<<1, StringValue(Ones(1))>>, <<48, BytesValue(<<65, 66, 67>>)>>,
     <<3, IntValue(7)>>, <<3, IntValue(123)>>, <<66, IntValue(7)>>}

\* (field number, value, width) triples
LcWidthInputs == {<<3, IntValue(7), 4>>}

\* "0200" with the hex bitmap of S and the bytes t: fields 2 (LLVAR), 3 and
\* 4 (2 bytes each) and 66 (1 byte)
LcBuffer(S, t) == MtiDigits \o encodeHexUpper(binaryBlocks(S)) \o t

\* well-formed buffers, and one whose field 4 is cut short
LcBuffers ==
    {LcBuffer({3, 4}, <<49, 50, 65, 66>>),
     LcBuffer({2, 3}, <<48, 49, 57, 52, 50>>),
     LcBuffer({1, 3, 66}, <<52, 50, 57>>),
     LcBuffer({3, 4}, <<49, 50, 65>>)}

\* 'X'
Overwritten(b) == [i \in 1..Len(b) |-> 88]

LcInit ==
    /\ msg \in {NewMessage(PkHex, <<>>, ValidationNone),
                NewMessage(PkHex, <<1, 2>>, ValidationNone)}
    /\ data = <<>>
    /\ res = NoRes
    /\ got = NoGot
    /\ packed = NoPacked
    /\ back = NoUnpacked
    /\ steps = 0
    /\ pc = "live"
    /\ buffers = <<>>
    /\ backing = [i \in {} |-> NoBacking]
    /\ cloneBacking = [i \in {} |-> NoBacking]
    /\ cloned = FALSE

\* the state after the call that made r of msg with the value
LcStore(r, n, value) ==
    \E st \in {IF r.err.code = Nil
               THEN stored(r.m.fields[n], n, value, buffers, backing)
               ELSE [buffers |-> buffers, backing |-> backing]} :
        /\ msg' = Refresh(r.m, st.buffers, st.backing)
        /\ back' = [back EXCEPT !.m = Refresh(@, st.buffers, cloneBacking)]
        /\ buffers' = st.buffers
        /\ backing' = st.backing

\* err := msg.SetField(n, value)
LcSetField(n, value) ==
    /\ pc = "live"
    /\ steps < MaxOps
    /\ \E r \in {Message_SetField(msg, n, value)} : LcStore(r, n, value)
    /\ steps' = steps + 1
    /\ UNCHANGED <<data, res, got, packed, pc, cloneBacking, cloned>>
    /\ UNCHANGED notLcVars

\* err := msg.SetFieldWithWidth(n, value, width)
LcSetFieldWithWidth(n, value, width) ==
    /\ pc = "live"
    /\ steps < MaxOps
    /\ \E r \in {SetFieldWithWidth(msg, n, value, width)} : LcStore(r, n, value)
    /\ steps' = steps + 1
    /\ UNCHANGED <<data, res, got, packed, pc, cloneBacking, cloned>>
    /\ UNCHANGED notLcVars

\* err := msg.Unpack(d); the caller keeps the first error it is handed that
\* names a field
LcUnpack(d) ==
    /\ pc = "live"
    /\ steps < MaxOps
    /\ \E u \in {Unpack(msg, d)} :
          /\ msg' = u.m
          /\ res' = IF res.err.viaLastError THEN res
                    ELSE [op |-> "Unpack", err |-> u.err, offset |-> u.offset]
    /\ data' = d
    /\ buffers' = Append(buffers, d)
    /\ backing' = unpackSlices(msg, d, backing, Len(buffers) + 1)
    /\ steps' = steps + 1
    /\ UNCHANGED <<got, packed, back, pc, cloneBacking, cloned>>
    /\ UNCHANGED notLcVars

\* msg.Reset()
LcReset ==
    /\ pc = "live"
    /\ steps < MaxOps
    /\ msg' = Message_Reset(msg)
    /\ backing' = [i \in {} |-> NoBacking]
    /\ steps' = steps + 1
    /\ UNCHANGED <<data, res, got, packed, back, pc, buffers, cloneBacking, cloned>>
    /\ UNCHANGED notLcVars

\* clone := msg.Clone()
LcClone ==
    /\ pc = "live"
    /\ steps < MaxOps
    /\ ~cloned
    /\ \E c \in {Clone(msg, backing)} :
          /\ back' = [m |-> c.m, err |-> NoError, offset |-> 0]
          /\ cloneBacking' = c.backing
    /\ cloned' = TRUE
    /\ steps' = steps + 1
    /\ UNCHANGED <<msg, data, res, got, packed, pc, buffers, backing>>
    /\ UNCHANGED notLcVars

\* the caller writes 'X' over the slice b it handed in
LcOverwrite(b) ==
    /\ pc = "live"
    /\ steps < MaxOps
    /\ b <= Len(buffers)
    /\ buffers[b] # Overwritten(buffers[b])
    /\ \E bufs \in {[buffers EXCEPT ![b] = Overwritten(@)]} :
          /\ buffers' = bufs
          /\ msg' = Refresh(msg, bufs, backing)
          /\ back' = [back EXCEPT !.m = Refresh(@, bufs, cloneBacking)]
    /\ steps' = steps + 1
    /\ UNCHANGED <<data, res, got, packed, pc, backing, cloneBacking, cloned>>
    /\ UNCHANGED notLcVars

\* fields := msg.GetPresentFields()
LcGetPresentFields ==
    /\ pc = "live"
    /\ got' = [op |-> "GetPresentFields", field |-> 0,
               value |-> Message_GetPresentFields(msg), panic |-> FALSE,
               err |-> NoError]
    /\ pc' = "read"
    /\ UNCHANGED <<msg, data, res, packed, back, steps>>
    /\ UNCHANGED memVars
    /\ UNCHANGED notLcVars

\* n, err := msg.Pack(buf)
LcPack ==
    /\ pc = "live"
    /\ \E p \in {Pack(msg, DefaultBufferSize)} :
          packed' = [bufLen |-> DefaultBufferSize, n |-> p.n, out |-> p.out,
                     segs |-> p.segs, err |-> p.err]
    /\ pc' = "packed"
    /\ UNCHANGED <<msg, data, res, got, back, steps>>
    /\ UNCHANGED memVars
    /\ UNCHANGED notLcVars

LcNext ==
    \/ \E in \in LcSetInputs : LcSetField(in[1], in[2])
    \/ \E in \in LcWidthInputs : LcSetFieldWithWidth(in[1], in[2], in[3])
    \/ \E d \in LcBuffers : LcUnpack(d)
    \/ LcReset
    \/ LcClone
    \/ \E b \in 1..MaxOps : LcOverwrite(b)
    \/ LcGetPresentFields
    \/ LcPack

LifecycleInit == BmIdle /\ LiIdle /\ SvIdle /\ CvIdle /\ TlvIdle /\ BatchIdle /\ LcInit

SpecLifecycle == LifecycleInit /\ [][LcNext]_vars

-----------------------------------------------------------------------------
(* Processor.ProcessBatch (processor.go) over the sync.Pool of Messages    *)
(* (message.go).  A Message object is a number, its identity; messages[o]  *)
(* is what the object holds.  An error is nil, a value of its own (obj 0),  *)
(* or the pointer &m.lastError into the Message obj, recorded with the     *)
(* field and the cause it had when Unpack returned it.                     *)

\* the most input buffers of a batch, and the largest p.concurrency
MaxBatch == 2
MaxConcurrency == 2

\* the packager of the Processor
PbPackager == PkHex

\* input buffers: one that decodes, one whose field 4 is cut short, and one
\* too short for an MTI
PbBuffers ==
    {LcBuffer({3, 4}, <<49, 50, 65, 66>>),
     LcBuffer({3, 4}, <<49, 50, 65>>),
     <<48, 50>>}

\* the batches
PbDataSlices == UNION {[1..n -> PbBuffers] : n \in 1..MaxBatch}

\* the error value Unpack of the Message o returns for the outcome err
errorValue(err, o) ==
    IF err.code = Nil THEN NilError
    ELSE [obj |-> IF err.viaLastError THEN o ELSE 0,
          field |-> err.field, code |-> err.code]

\* the goroutine that stores the Message whatever Unpack returned
goroutineStores_always(u, o) ==
    [result |-> o, error |-> errorValue(u.err, o), release |-> u.err.code # Nil]

\* the body of the goroutine once Unpack of the Message o has returned u:
\* what it assigns to results[idx] and errors[idx] (nil for neither) and
\* whether it releases o
goroutineStores(u, o) ==
    IF u.err.code # Nil
    THEN [result |-> 0, error |-> errorValue(u.err, o), release |-> TRUE]
    ELSE [result |-> o, error |-> NilError, release |-> FALSE]

\* the first error of errs that is not nil, nil when there is none
RECURSIVE firstError(_)
firstError(errs) ==
    IF Len(errs) = 0 THEN NilError
    ELSE IF Head(errs) # NilError THEN Head(errs)
    ELSE firstError(Tail(errs))

\* results and errors are made, the loop is about to start
PbInit ==
    /\ messagePool = {}
    /\ messages = <<>>
    /\ workers = <<>>
    /\ semaphore = 0
    /\ batch \in {[NoBatch EXCEPT !.dataSlice = ds, !.concurrency = c,
                                  !.i = 1, !.pc = "loop"] :
                     ds \in PbDataSlices, c \in 1..MaxConcurrency}
    /\ results = [i \in 1..Len(batch.dataSlice) |-> 0]
    /\ errors = [i \in 1..Len(batch.dataSlice) |-> NilError]

\* the context is cancelled while the loop of ProcessBatch runs
PbCancel ==
    /\ batch.pc \in {"loop", "acquire"}
    /\ ~batch.cancelled
    /\ batch' = [batch EXCEPT !.cancelled = TRUE]
    /\ UNCHANGED <<messagePool, messages, workers, semaphore, results, errors>>
    /\ UNCHANGED notBatchVars

\* the head of the loop: the range test and the select on ctx.Done()
PbLoop ==
    /\ batch.pc = "loop"
    /\ batch' = [batch EXCEPT !.pc =
                    IF batch.i > Len(batch.dataSlice) THEN "wait"
                    ELSE IF batch.cancelled THEN "cancelled"
                    ELSE "acquire"]
    /\ UNCHANGED <<messagePool, messages, workers, semaphore, results, errors>>
    /\ UNCHANGED notBatchVars

\* wg.Add(1), semaphore <- struct{}{}, go func(idx, msgData)
PbGo ==
    /\ batch.pc = "acquire"
    /\ semaphore < batch.concurrency
    /\ semaphore' = semaphore + 1
    /\ workers' = Append(workers, [pc |-> "start", msg |-> 0])
    /\ batch' = [batch EXCEPT !.i = @ + 1, !.pc = "loop"]
    /\ UNCHANGED <<messagePool, messages, results, errors>>
    /\ UNCHANGED notBatchVars

\* msg := NewMessage(WithPackager(p.packager)) in the goroutine idx: Get
\* hands out a pooled Message or a new one, and the Message is reset
PbNewMessage(idx) ==
    /\ idx <= Len(workers)
    /\ workers[idx].pc = "start"
    /\ \E o \in messagePool \cup {Len(messages) + 1} :
          /\ messagePool' = messagePool \ {o}
          /\ messages' = IF o > Len(messages)
                         THEN Append(messages, NewMessage(PbPackager, <<>>, ValidationNone))
                         ELSE [messages EXCEPT
                                  ![o] = NewMessage(PbPackager, <<>>, ValidationNone)]
          /\ workers' = [workers EXCEPT ![idx] = [pc |-> "unpack", msg |-> o]]
    /\ UNCHANGED <<semaphore, results, errors, batch>>
    /\ UNCHANGED notBatchVars

\* err := msg.Unpack(msgData) in the goroutine idx, and the assignment to
\* errors[idx] or results[idx]
PbUnpack(idx) ==
    /\ idx <= Len(workers)
    /\ workers[idx].pc = "unpack"
    /\ \E u \in {Unpack(messages[workers[idx].msg], batch.dataSlice[idx])} :
       \E g \in {goroutineStores(u, workers[idx].msg)} :
          /\ messages' = [messages EXCEPT ![workers[idx].msg] = u.m]
          /\ results' = IF g.result = 0 THEN results
                        ELSE [results EXCEPT ![idx] = g.result]
          /\ errors' = IF g.error = NilError THEN errors
                       ELSE [errors EXCEPT ![idx] = g.error]
          /\ workers' = [workers EXCEPT
                            ![idx].pc = IF g.release THEN "release" ELSE "exit"]
    /\ UNCHANGED <<messagePool, semaphore, batch>>
    /\ UNCHANGED notBatchVars

\* msg.Release() in the goroutine idx: reset and messagePool.Put
PbRelease(idx) ==
    /\ idx <= Len(workers)
    /\ workers[idx].pc = "release"
    /\ messages' = [messages EXCEPT ![workers[idx].msg] = Message_Reset(@)]
    /\ messagePool' = messagePool \cup {workers[idx].msg}
    /\ workers' = [workers EXCEPT ![idx].pc = "exit"]
    /\ UNCHANGED <<semaphore, results, errors, batch>>
    /\ UNCHANGED notBatchVars

\* the deferred calls of the goroutine idx: <-semaphore and wg.Done()
PbExit(idx) ==
    /\ idx <= Len(workers)
    /\ workers[idx].pc = "exit"
    /\ semaphore' = semaphore - 1
    /\ workers' = [workers EXCEPT ![idx].pc = "done"]
    /\ UNCHANGED <<messagePool, messages, results, errors, batch>>
    /\ UNCHANGED notBatchVars

\* wg.Wait() returns, and ProcessBatch with it: nil and ctx.Err() after a
\* cancellation, results and the first error otherwise
PbReturn ==
    /\ batch.pc \in {"wait", "cancelled"}
    /\ \A idx \in 1..Len(workers) : workers[idx].pc = "done"
    /\ batch' = [batch EXCEPT
                    !.pc = "returned",
                    !.ret = IF batch.pc = "cancelled"
                            THEN [isNil |-> TRUE, results |-> <<>>,
                                  err |-> [obj |-> 0, field |-> 0,
                                           code |-> "context canceled"]]
                            ELSE [isNil |-> FALSE, results |-> results,
                                  err |-> firstError(errors)]]
    /\ UNCHANGED <<messagePool, messages, workers, semaphore, results, errors>>
    /\ UNCHANGED notBatchVars

PbNext ==
    \/ PbCancel
    \/ PbLoop
    \/ PbGo
    \/ \E idx \in 1..MaxBatch : PbNewMessage(idx)
    \/ \E idx \in 1..MaxBatch : PbUnpack(idx)
    \/ \E idx \in 1..MaxBatch : PbRelease(idx)
    \/ \E idx \in 1..MaxBatch : PbExit(idx)
    \/ PbReturn

BatchInit == BmIdle /\ MsgIdle /\ LiIdle /\ SvIdle /\ CvIdle /\ TlvIdle /\ MemIdle /\ PbInit

SpecBatch == BatchInit /\ [][PbNext]_vars

-----------------------------------------------------------------------------
(* The bitmap scenario as a specification.                                 *)

BmNext ==
    \/ \E n \in BmFieldNums : BmSetField(n)
    \/ \E n \in BmFieldNums : BmClearField(n)
    \/ BmReset
    \/ \E enc \in {BitmapEncodingBinary, BitmapEncodingHex}, bufLen \in BmBufLens :
           BmPackBitmap(enc, bufLen)
    \/ BmUnpackBitmap

BitmapInit == MsgIdle /\ LiIdle /\ SvIdle /\ CvIdle /\ TlvIdle /\ MemIdle /\ BatchIdle /\ BmInit

SpecBitmap == BitmapInit /\ [][BmNext]_vars

-----------------------------------------------------------------------------
(* The length indicator scenario as a specification.                       *)

LiNext ==
    \/ \E msgLen \in LiValues, bufLen \in LiBufLens : LiWrite(msgLen, bufLen)
    \/ LiReadWritten
    \/ \E buf \in RawBuffers : LiReadRaw(buf)

LengthInit == BmIdle /\ MsgIdle /\ SvIdle /\ CvIdle /\ TlvIdle /\ MemIdle /\ BatchIdle /\ LiInit

SpecLength == LengthInit /\ [][LiNext]_vars

-----------------------------------------------------------------------------
(* The schema scenario as a specification.                                 *)

\* the arguments of SetField: "12", "0012", "1A", "1", "00", "AB", "A-" and
\* byte strings
SvSetInputs ==
    {<<2, StringValue(<<49, 50>>)>>, <<2, StringValue(<<48, 48, 49, 50>>)>>,
     <<2, StringValue(<<49, 65>>)>>,
     <<3, StringValue(<<49, 50>>)>>, <<3, StringValue(<<49>>)>>,
     <<3, StringValue(<<48, 48>>)>>,
     <<4, StringValue(<<65, 66>>)>>, <<4, StringValue(<<65, 45>>)>>,
     <<4, StringValue(<<65>>)>>,
     <<5, BytesValue(<<1, 2>>)>>, <<5, BytesValue(<<0>>)>>,
     <<5, BytesValue(<<255, 0, 1>>)>>}

SvNext ==
    \/ \E in \in FieldConfigInputs : SvNewPackagerConfig(in[1], in[2])
    \/ \E pconfig \in {DefaultPackagerConfig, OwnPackagerConfig} :
           SvNewCompiledPackager(pconfig)
    \/ \E rule \in GlobalRuleInputs : SvAddGlobalRule(rule)
    \/ \E level \in SvLevels : SvNewMessage(level)
    \/ \E rule \in GlobalRuleInputs : SvNewMessageCustom(<<rule>>)
    \/ SvNewMessageCustom(<<>>)
    \/ \E in \in SvSetInputs : SvSetField(in[1], in[2])
    \/ \E level \in SvLevels : SvSetValidationLevel(level)
    \/ SvValidate

SchemaInit == BmIdle /\ MsgIdle /\ LiIdle /\ CvIdle /\ TlvIdle /\ MemIdle /\ BatchIdle /\ SvInit

SpecSchema == SchemaInit /\ [][SvNext]_vars

-----------------------------------------------------------------------------
(* The concurrent calls on the validator as a specification.               *)

CvNext ==
    \/ \E g \in Goroutines : CvRLock(g)
    \/ \E g \in Goroutines : CvValidateMessage(g)
    \/ \E g \in Goroutines : CvValidateField(g)
    \/ \E g \in Goroutines : CvRUnlock(g)
    \/ \E g \in Goroutines : CvLock(g)
    \/ \E g \in Goroutines : CvLocked(g)
    \/ \E g \in Goroutines : CvAddGlobalRule(g)

ConcurrentInit == BmIdle /\ MsgIdle /\ LiIdle /\ SvIdle /\ TlvIdle /\ MemIdle /\ BatchIdle /\ CvInit

SpecConcurrent == ConcurrentInit /\ [][CvNext]_vars

-----------------------------------------------------------------------------
(* The TLV scenario as a specification.                                    *)

TlvNext ==
    \/ TlvParse
    \/ TlvBuild
    \/ \E bufLen \in TlvBufLens : TlvPack(bufLen)
    \/ TlvParsePacked

TLVInit == BmIdle /\ MsgIdle /\ LiIdle /\ SvIdle /\ CvIdle /\ MemIdle /\ BatchIdle /\ TlvInit

SpecTLV == TLVInit /\ [][TlvNext]_vars

-----------------------------------------------------------------------------
(* Properties of the BitmapManager (SpecBitmap).                           *)

\* some bit 65..128 is set in the secondary block of the manager b
AnySecondaryBit(b) == \E i \in 1..SecondaryBitmapSize : b.secondary[i] # 0

\* bit 1 of the primary block of the manager b
PrimaryBit1(b) == TestBit(b.primary[1], 7)

\* the set of bits 1..128 the manager b reports
BitsOf(b) == {n \in 1..MaxFieldNumber : IsFieldSet(b, n)}

\* C3: in every state reached from the empty bitmap by SetField(n),
\* ClearField(n) with n in 1..128 and Reset, bit 1 of the primary bitmap is
\* set if and only if one of the bits 65..128 is set, and hasSecondary has
\* that same value.
C3_Bit1IffSecondary ==
    /\ PrimaryBit1(bm) <=> AnySecondaryBit(bm)
    /\ bm.hasSecondary <=> AnySecondaryBit(bm)

\* bit 1 of the primary block as written on the wire under an encoding
WrittenBit1(out, enc) ==
    IF enc = BitmapEncodingHex THEN fromHexChar(out[1]) \in 8..15
    ELSE TestBit(out[1], 7)

\* the bytes of one bitmap block on the wire under an encoding
BlockBytes(enc) == IF enc = BitmapEncodingHex THEN 2 * BitmapSize ELSE BitmapSize

\* C4: for every state reached by SetField/ClearField/Reset and each
\* encoding, PackBitmap writes the primary block, and the secondary block
\* exactly when bit 1 of the written primary is set; UnpackBitmap of those
\* bytes into a fresh manager succeeds, consumes exactly the bytes written
\* and reports the same set of bits.
C4_PackBitmapRoundTrip ==
    /\ (bmPc \in {"packed", "unpacked"} /\ bmWire.err = Nil)
          => /\ Len(bmWire.out) >= BlockBytes(bmWire.enc)
             /\ Len(bmWire.out) = (IF WrittenBit1(bmWire.out, bmWire.enc)
                                   THEN 2 * BlockBytes(bmWire.enc)
                                   ELSE BlockBytes(bmWire.enc))
    /\ bmPc = "unpacked"
          => /\ bmBack.err = Nil
             /\ bmBack.n = Len(bmWire.out)
             /\ BitsOf(bmBack.bm) = BitsOf(bm)

-----------------------------------------------------------------------------
(* Properties of Unpack and of Pack after Unpack (SpecDecode).             *)

\* Unpack accepted the buffer
Accepted == res.op = "Unpack" /\ res.err.code = Nil

\* the offset of the bitmap in a buffer of the Message m: after the header
\* of the packager and the MTI
BitmapOffset(m) ==
    (IF ~m.packager.isNil /\ m.packager.headerConfig.Type # HeaderNone
     THEN m.packager.headerConfig.Length ELSE 0) + 4

EncodingOf(m) ==
    IF m.packager.isNil THEN BitmapEncodingHex ELSE m.packager.bitmapEncoding

\* the number of bitmap bytes of a buffer decoded into the Message m
BitmapBytes(m) ==
    IF m.bitmap.hasSecondary THEN 2 * BlockBytes(EncodingOf(m))
    ELSE BlockBytes(EncodingOf(m))

\* the ASCII-hex bitmap of the buffer d decoded into m has a digit a..f
LowerCaseBitmap(m, d) ==
    /\ EncodingOf(m) = BitmapEncodingHex
    /\ \E i \in (BitmapOffset(m) + 1)..(BitmapOffset(m) + BitmapBytes(m)) :
           d[i] >= 97 /\ d[i] <= 102

PresentFields(m) == {n \in 2..MaxFieldNumber : isFieldPresent(m, n)}

IsVariable(config) ==
    config.Length \in {LengthLLVAR, LengthLLLVAR, LengthLLLLVAR}

\* the bytes of field config at offset of the buffer d are cut short: the
\* length prefix or the value it declares extends past the end of d
CutShort(config, d, offset) ==
    LET w == prefixDigits(config.Length)
    IN \/ Len(d) < offset + w
       \/ /\ \A i \in 1..w : isDigit(d[offset + i])
          /\ Len(d) < offset + w
                      + (IF IsVariable(config)
                         THEN decimalOf(Slice(d, offset, offset + w))
                         ELSE config.MaxLength)

\* C7: when Unpack reaches a present field n whose bytes are cut short, it
\* fails with ErrInsufficientData wrapped with field number n, and no field
\* with a number greater than n is decoded or marked present.
C7_CutShortIsInsufficientData ==
    (/\ pc = "unpacked"
     /\ res.err.field > 0
     /\ FieldConfigured(msg.packager, res.err.field)
     /\ CutShort(msg.packager.fieldConfigs[res.err.field], data, res.offset))
        => /\ res.err.code = "ErrInsufficientData"
           /\ \A k \in (res.err.field + 1)..MaxFieldNumber :
                  ~isFieldPresent(msg, k) /\ ~msg.fields[k].parsed

\* C8: on a Message whose validation level is STRICT, Unpack of a
\* variable-length field whose declared length exceeds maxLength fails, so
\* after a successful strict Unpack every variable field has length <=
\* maxLength.
C8_StrictRejectsOverMaxLength ==
    (pc = "unpacked" /\ Accepted /\ msg.validationLevel = ValidationStrict)
        => \A n \in PresentFields(msg) :
               IsVariable(msg.packager.fieldConfigs[n])
                   => msg.fields[n].length <= msg.packager.fieldConfigs[n].MaxLength

\* the first and the second present field of the Message m (0 when absent)
FirstPresent(m) ==
    IF PresentFields(m) = {} THEN 0
    ELSE CHOOSE n \in PresentFields(m) : \A k \in PresentFields(m) : n <= k
SecondPresent(m) ==
    LET rest == PresentFields(m) \ {FirstPresent(m)}
    IN IF rest = {} THEN 0 ELSE CHOOSE n \in rest : \A k \in rest : n <= k

\* C9: Unpack of a variable-length field whose length prefix is all zeros
\* yields a field that is present with length 0, whose GetBytes and
\* GetString read back as empty without failing, and the next present field
\* is decoded starting at the byte right after the prefix.
C9_ZeroLengthField ==
    /\ (/\ pc = "read"
        /\ isFieldPresent(msg, got.field)
        /\ IsVariable(msg.packager.fieldConfigs[got.field])
        /\ msg.fields[got.field].length = 0)
           => ~got.panic /\ got.err.code = Nil /\ got.value = <<>>
    /\ (/\ pc = "unpacked"
        /\ Accepted
        /\ SecondPresent(msg) # 0
        /\ IsVariable(msg.packager.fieldConfigs[FirstPresent(msg)])
        /\ msg.fields[FirstPresent(msg)].length = 0)
           => LET start == BitmapOffset(msg) + BitmapBytes(msg)
                           + prefixDigits(
                                 msg.packager.fieldConfigs[FirstPresent(msg)].Length)
                  next == msg.fields[SecondPresent(msg)]
                  w == prefixDigits(
                           msg.packager.fieldConfigs[SecondPresent(msg)].Length)
              IN Field_Bytes(next)
                     = Slice(data, start + w, start + w + next.length)

-----------------------------------------------------------------------------
(* Properties of Pack and of Unpack after Pack (SpecEncode).               *)

\* four bytes, each in '0'..'9'
IsDigitMTI(mti) == Len(mti) = 4 /\ \A i \in 1..4 : isDigit(mti[i])

\* every field set in the Message m is configured in its packager and
\* within its length rule
FieldsWithinSchema(m) ==
    /\ ~m.packager.isNil
    /\ ~isFieldPresent(m, 1)
    /\ \A n \in PresentFields(m) :
           /\ FieldConfigured(m.packager, n)
           /\ LET config == m.packager.fieldConfigs[n]
                  len == Len(Field_Bytes(m.fields[n]))
              IN IF config.Length = LengthFixed THEN len = config.MaxLength
                 ELSE len <= config.MaxLength

\* a well-formed Message: MTI set, every set field configured in the
\* packager and within its length rule
WellFormed(m) == IsDigitMTI(m.mti) /\ FieldsWithinSchema(m)

\* C2: for every well-formed Message M, Pack succeeds and Unpack of the
\* bytes written by Pack(M) yields a Message with the same MTI, the same
\* bitmap, the same set of present fields and, for each present field, the
\* same bytes as M.
C2_UnpackOfPackIsMessage ==
    /\ (pc = "packed" /\ WellFormed(msg) /\ packed.bufLen = DefaultBufferSize)
           => packed.err.code = Nil
    /\ (pc = "back" /\ WellFormed(msg))
           => /\ back.err.code = Nil
              /\ back.m.mti = msg.mti
              /\ back.m.bitmap = msg.bitmap
              /\ back.m.fieldPresence = msg.fieldPresence
              /\ \A n \in PresentFields(msg) :
                     Field_Bytes(back.m.fields[n]) = Field_Bytes(msg.fields[n])

\* the configuration of the field a segment of the Pack output belongs to
ConfigOf(m, seg) == m.packager.fieldConfigs[seg.field]

\* C5: for every variable-length field that Pack writes, whatever the length
\* of its value, the length prefix has exactly 2, 3 or 4 ASCII digits for
\* LLVAR, LLLVAR, LLLLVAR, its decimal value equals the number of value bytes
\* emitted right after it, and that number does not exceed maxLength.
C5_LengthPrefix ==
    (pc \in {"packed", "back"} /\ packed.err.code = Nil)
        => \A k \in 1..Len(packed.segs) :
               LET seg == packed.segs[k]
               IN IsVariable(ConfigOf(msg, seg))
                      => /\ Len(seg.prefix) = prefixDigits(ConfigOf(msg, seg).Length)
                         /\ \A i \in 1..Len(seg.prefix) : isDigit(seg.prefix[i])
                         /\ decimalOf(seg.prefix) = Len(seg.value)
                         /\ Len(seg.value) <= ConfigOf(msg, seg).MaxLength

\* the maxLength bytes of a FIXED field of a type holding fieldData: padded
\* on the left with '0' when numeric, on the right with ' ' otherwise, cut
\* to maxLength when longer
PaddedFixed(fieldType, maxLength, fieldData) ==
    IF Len(fieldData) >= maxLength THEN SubSeq(fieldData, 1, maxLength)
    ELSE IF fieldType = FieldTypeN
    THEN [i \in 1..(maxLength - Len(fieldData)) |-> 48] \o fieldData
    ELSE fieldData \o [i \in 1..(maxLength - Len(fieldData)) |-> 32]

\* every field set in the Message m is one the packager configures
AllConfigured(m) ==
    /\ ~m.packager.isNil
    /\ ~isFieldPresent(m, 1)
    /\ \A n \in PresentFields(m) : FieldConfigured(m.packager, n)

\* C6: when Pack serializes a FIXED field whose data is shorter than
\* maxLength it emits exactly maxLength bytes, padded on the left with '0'
\* for numeric types and on the right with ' ' for alpha types; longer data
\* is cut to maxLength; without strict validation Pack does not fail on a
\* FIXED length mismatch.  Stated of Message.Pack and of the FIXED case of
\* the schema-with-JSON Pack.
C6_FixedPadding ==
    /\ (/\ pc = "packed"
        /\ packed.bufLen = DefaultBufferSize
        /\ msg.validationLevel # ValidationStrict
        /\ AllConfigured(msg))
           => /\ packed.err.code = Nil
              /\ \A k \in 1..Len(packed.segs) :
                     LET seg == packed.segs[k]
                         config == ConfigOf(msg, seg)
                     IN config.Length = LengthFixed
                            => seg.value
                                   = PaddedFixed(config.Type, config.MaxLength,
                                                 Field_Bytes(msg.fields[seg.field]))
    /\ (pc = "legacy" /\ got.op = "legacyPackFixed")
           => LET config == msg.packager.fieldConfigs[got.field]
              IN got.value = PaddedFixed(config.Type, config.MaxLength,
                                         Field_Bytes(msg.fields[got.field]))

\* C10: the MTI of a Message is always 4 ASCII digits: no successful SetMTI
\* and no successful Unpack leaves an MTI with a byte outside '0'..'9'.
C10_MTIIsDigits ==
    /\ (res.op = "SetMTI" /\ res.err.code = Nil) => IsDigitMTI(msg.mti)
    /\ (pc = "back" /\ back.err.code = Nil) => IsDigitMTI(back.m.mti)

\* the packager of the Message m has the 4-digit ASCII decimal length
\* indicator
HasASCIILengthIndicator(m) ==
    /\ ~m.packager.isNil
    /\ m.packager.lengthIndicator = [Type |-> LengthIndicatorASCII, Length |-> 4]

\* C11: under a packager whose length indicator is ASCII_DEC of width 4, Pack
\* emits 4 decimal digits whose value counts the bytes after them (0048 for a
\* body of 48 bytes), followed by the body starting at the MTI; Unpack of
\* that output under the same packager strips the prefix and decodes the
\* body starting at the MTI.
C11_LengthIndicatorPrefix ==
    /\ (/\ pc \in {"packed", "back"}
        /\ packed.err.code = Nil
        /\ HasASCIILengthIndicator(msg)
        /\ WellFormed(msg))
           => /\ Len(packed.out) >= 8
              /\ \A i \in 1..4 : isDigit(packed.out[i])
              /\ decimalOf(Slice(packed.out, 0, 4)) = Len(packed.out) - 4
              /\ Slice(packed.out, 4, 8) = msg.mti
    /\ (pc = "back" /\ HasASCIILengthIndicator(msg) /\ WellFormed(msg))
           => /\ back.err.code = Nil
              /\ back.m.mti = msg.mti
              /\ back.offset = Len(packed.out)

\* the packager of the Message m configures a header
HasHeaderConfig(m) ==
    ~m.packager.isNil /\ m.packager.headerConfig.Type # HeaderNone

\* the header bytes a Message m is to be packed with under a header of w
\* bytes: its own header, or w zero bytes when it has none
HeaderToPack(m, w) == IF Len(m.header) > 0 THEN m.header ELSE Zeros(w)

\* C12: under a packager whose header kind is not NONE with width w, the
\* output of Pack begins with exactly w header bytes (the header of the
\* Message, or w zero bytes when it has none) followed by the MTI, and Unpack
\* under the same packager recovers these header bytes and reads the MTI at
\* offset w.
C12_HeaderBytes ==
    /\ (pc \in {"packed", "back"} /\ packed.err.code = Nil /\ HasHeaderConfig(msg))
           => LET w == msg.packager.headerConfig.Length
              IN /\ Len(packed.out) >= w + 4
                 /\ Slice(packed.out, 0, w) = HeaderToPack(msg, w)
                 /\ Slice(packed.out, w, w + 4) = msg.mti
    /\ (pc = "back" /\ HasHeaderConfig(msg) /\ WellFormed(msg))
           => LET w == msg.packager.headerConfig.Length
              IN /\ back.err.code = Nil
                 /\ back.m.header = HeaderToPack(msg, w)
                 /\ back.m.mti = msg.mti

-----------------------------------------------------------------------------
(* C13, C14: the length indicator.                                         *)

SupportedIndicator(config) ==
    \/ config.Type = LengthIndicatorBinary /\ config.Length \in {2, 4}
    \/ config.Type = LengthIndicatorASCII /\ config.Length = 4
    \/ config.Type = LengthIndicatorHex /\ config.Length = 4

KnownIndicator(config) ==
    config.Type \in {LengthIndicatorBinary, LengthIndicatorASCII, LengthIndicatorHex}

\* msgLen is in the range of the supported indicator config
InRange(config, msgLen) ==
    IF config.Type = LengthIndicatorBinary /\ config.Length = 4
    THEN msgLen.hi <= 32767
    ELSE IF config.Type = LengthIndicatorASCII
    THEN ~ExceedsLow(msgLen, 9999)
    ELSE ~ExceedsLow(msgLen, 65535)

\* the number the bytes out denote under config
RECURSIVE bigEndianOf(_)
bigEndianOf(bs) ==
    IF Len(bs) = 0 THEN 0
    ELSE bigEndianOf(SubSeq(bs, 1, Len(bs) - 1)) * 256 + bs[Len(bs)]

IsUpperHexDigit(b) == (b >= 48 /\ b <= 57) \/ (b >= 65 /\ b <= 70)
IsHexDigit(b) == IsUpperHexDigit(b) \/ (b >= 97 /\ b <= 102)

Denotes(config, out, v) ==
    IF config.Type = LengthIndicatorBinary THEN bigEndianOf(out) = v
    ELSE IF config.Type = LengthIndicatorASCII
    THEN (\A i \in 1..Len(out) : isDigit(out[i])) /\ decimalOf(out) = v
    ELSE (\A i \in 1..Len(out) : IsUpperHexDigit(out[i])) /\ hexValueOf(out) = v

WriteHadRoom == liWire.bufLen >= liConfig.Length

\* C13, the part about values in range: WriteLengthIndicator of a value in
\* the range of a supported indicator writes exactly width bytes that denote
\* the value, zero-padded on the left, and ReadLengthIndicator of those bytes
\* returns the value and the width.
C13_InRangeRoundTrip ==
    /\ (/\ liPc \in {"written", "readback"}
        /\ SupportedIndicator(liConfig)
        /\ InRange(liConfig, liWire.msgLen)
        /\ WriteHadRoom)
           => /\ liWire.err = Nil
              /\ liWire.n = liConfig.Length
              /\ Len(liWire.out) = liConfig.Length
              /\ Denotes(liConfig, liWire.out,
                         liWire.msgLen.hi * 65536 + liWire.msgLen.lo)
    /\ (liPc = "readback" /\ SupportedIndicator(liConfig))
           => liBack = liRead(liWire.msgLen.hi * 65536 + liWire.msgLen.lo,
                              liConfig.Length, Nil)

\* C13, the part about failures: for a value above the range or an
\* unsupported width WriteLengthIndicator reports 0 bytes written and fails.
C13_FailureWritesNothing ==
    (/\ liPc = "written"
     /\ KnownIndicator(liConfig)
     /\ \/ ~SupportedIndicator(liConfig)
        \/ ~InRange(liConfig, liWire.msgLen))
        => liWire.err # Nil /\ liWire.n = 0 /\ liWire.out = <<>>

\* C13: for each supported length indicator and every value in its range
\* WriteLengthIndicator writes exactly width bytes, zero-padded on the left,
\* and ReadLengthIndicator of those bytes returns the value and the width;
\* for a value above the range or an unsupported width WriteLengthIndicator
\* fails with ErrInvalidLength and reports 0 bytes written.
C13_WriteLengthIndicator ==
    /\ C13_InRangeRoundTrip
    /\ (/\ liPc = "written"
        /\ KnownIndicator(liConfig)
        /\ WriteHadRoom
        /\ \/ ~SupportedIndicator(liConfig)
           \/ ~InRange(liConfig, liWire.msgLen))
           => liWire.err = "ErrInvalidLength" /\ liWire.n = 0

\* C14, the ASCII_DEC part: ReadLengthIndicator under ASCII width 4 fails
\* unless each of the 4 bytes is in '0'..'9', and returns the number the 4
\* digits denote.
C14_StrictDecimal ==
    (/\ liPc = "read"
     /\ liConfig = LengthIndicatorConfig(LengthIndicatorASCII, 4)
     /\ liBack.err = Nil)
        => /\ Len(liBuf) >= 4
           /\ \A i \in 1..4 : isDigit(liBuf[i])
           /\ liBack.value = decimalOf(Slice(liBuf, 0, 4))
           /\ liBack.value >= 0

\* C14: ReadLengthIndicator is strict: under ASCII_DEC it fails unless each of
\* the 4 bytes is in '0'..'9', under ASCII_HEX it fails unless each of the 4
\* bytes is a hexadecimal digit; every length it returns is the non-negative
\* number denoted by the 4 digits in the base.
C14_StrictRead ==
    /\ C14_StrictDecimal
    /\ (/\ liPc = "read"
        /\ liConfig = LengthIndicatorConfig(LengthIndicatorHex, 4)
        /\ liBack.err = Nil)
           => /\ Len(liBuf) >= 4
              /\ \A i \in 1..4 : IsHexDigit(liBuf[i])
              /\ liBack.value = hexValueOf(Slice(liBuf, 0, 4))
              /\ liBack.value >= 0

-----------------------------------------------------------------------------
(* C15, C16: the schema is read-only once created.                         *)

\* what DefaultPackagerConfig() gives for fieldNum
DefaultEntry(maps, fieldNum) ==
    IF fieldNum \in DOMAIN maps[DefaultPackagerConfig.Fields]
    THEN [config |-> maps[DefaultPackagerConfig.Fields][fieldNum], exists |-> TRUE]
    ELSE [config |-> FieldConfig(FieldTypeANS, LengthFixed, 0), exists |-> FALSE]

\* a step of NewPackagerConfig(WithFieldConfig(n, c)) leaves what the compiled
\* packager reports for every field, and the rules its validator uses, as
\* they were
PackagerKeepsSchema ==
    (svOp' = "NewPackagerConfig" /\ cp.made)
        => /\ \A n \in 1..MaxFieldNumber :
                 GetFieldConfig(fieldMaps', cp', n) = GetFieldConfig(fieldMaps, cp, n)
           /\ cp'.validator = cp.validator

\* C15, for a packager compiled from a configuration with a field map of its
\* own: NewPackagerConfig(WithFieldConfig(n, c)) does not change what the
\* packager reports or uses.
C15_OwnMapIsReadOnly ==
    [][cp.fieldConfigs = "own" => PackagerKeepsSchema]_vars

\* C15: the schema is read-only once created:
\* NewPackagerConfig(WithFieldConfig(n, c)) changes neither the field spec an
\* already compiled CompiledPackager reports or uses for any field, nor what a
\* later DefaultPackagerConfig() gives for it.
C15_SchemaIsReadOnly ==
    [][/\ PackagerKeepsSchema
       /\ svOp' = "NewPackagerConfig"
             => \A n \in 1..MaxFieldNumber :
                   DefaultEntry(fieldMaps', n) = DefaultEntry(fieldMaps, n)]_vars

\* C16: a CompiledPackager is immutable after construction:
\* NewMessage(WithPackager(p), WithCustomValidation(rules...)) never changes
\* the rule set of p's validator.
C16_NewMessageKeepsRules ==
    [][svOp' = "NewMessage" => cp'.validator = cp.validator]_vars

\* C16, for the other options: NewMessage(WithPackager(p),
\* WithValidationLevel(level)) and WithCustomValidation() without rules leave
\* the validator as it was.
C16_OtherOptionsKeepRules ==
    [][(svOp' = "NewMessage" /\ svMsg'.m.validationLevel # ValidationCustom)
          => cp'.validator = cp.validator]_vars

-----------------------------------------------------------------------------
(* C17: concurrent use of the CompiledValidator.                           *)

\* goroutine g has not returned and its next step is a lock operation that
\* cannot return in this state
Blocked(g) ==
    \/ /\ calls[g].pc \in {"ValidateMessage.RLock", "ValidateField.RLock",
                           "AddGlobalRule.Lock"}
       /\ mu.writer # NoWriter
    \/ calls[g].pc = "AddGlobalRule.wait" /\ mu.readers > 0

\* every goroutine has returned or is blocked, and one is blocked: no step is
\* possible any more
BlockedForever ==
    /\ \E g \in Goroutines : Blocked(g)
    /\ \A g \in Goroutines : calls[g].pc = "done" \/ Blocked(g)

\* some ValidateMessage call validates a present field
NestedRLock ==
    \E g \in Goroutines :
        /\ calls[g].op = "ValidateMessage"
        /\ calls[g].level # ValidationNone
        /\ calls[g].left > 0 \/ calls[g].nested

\* C17, without a ValidateMessage call that reaches ValidateField: no
\* interleaving of the calls leaves a call blocked forever.
C17_NoNestingNoBlocking == NestedRLock \/ ~BlockedForever

\* C17: the CompiledValidator is safe for concurrent use: for every
\* interleaving of ValidateMessage and ValidateField calls with AddGlobalRule
\* calls, no call blocks forever.
C17_NoCallBlocksForever == ~BlockedForever

-----------------------------------------------------------------------------
(* C18, C19, C20: what Validate accepts.                                   *)

Validated == svOp = "Validate" /\ svRes.called

\* the validator of the packager without its global rules
WithoutGlobalRules == [cp.validator EXCEPT !.globalRules = <<>>]

\* the first field, in ascending order, that is mandatory and absent or is
\* present and violates one of its own compiled rules; the error for it
FirstOwnViolation == ValidateMessage(WithoutGlobalRules, svMsg.m, ValidationBasic)

\* C18, at NONE and without global rules: ValidateMessage at NONE accepts
\* everything, and on a validator without global rules it fails at BASIC
\* exactly when a mandatory field is absent or a present field violates a
\* compiled per-field rule, reporting the first violation.
C18_WithoutGlobalRules ==
    /\ (Validated /\ svMsg.m.validationLevel = ValidationNone)
           => svRes.err = NoValidationError
    /\ (/\ Validated /\ svMsg.m.validationLevel = ValidationBasic
        /\ cp.validator.globalRules = <<>>)
           => svRes.err = FirstOwnViolation

\* C18: ValidateMessage at NONE accepts everything; at BASIC it fails exactly
\* when a mandatory field is absent or a present field violates a compiled
\* per-field rule, reporting the first violation and applying no global rule;
\* global rules are applied only at CUSTOM.
C18_LevelsOfValidation ==
    /\ (Validated /\ svMsg.m.validationLevel = ValidationNone)
           => svRes.err = NoValidationError
    /\ (Validated /\ svMsg.m.validationLevel = ValidationBasic)
           => svRes.err = FirstOwnViolation
    /\ (/\ Validated /\ svMsg.m.validationLevel = ValidationStrict
        /\ svRes.err # NoValidationError)
           => FirstOwnViolation # NoValidationError

\* the packager was compiled from the caller's own field map, which no
\* operation changes: OwnFields is the schema the validator was compiled from
OwnSchema == cp.made /\ cp.fieldConfigs = "own"

\* Validate has run at a level other than NONE on a Message of that packager,
\* whose validator holds the compiled rules only
ValidatedOwn ==
    /\ Validated /\ OwnSchema
    /\ svMsg.m.validationLevel # ValidationNone
    /\ cp.validator.globalRules = <<>>

PresentOfKind(n, fixed) ==
    /\ n \in DOMAIN OwnFields
    /\ isFieldPresent(svMsg.m, n)
    /\ (OwnFields[n].Length = LengthFixed) = fixed

OutsideRange(n) ==
    \/ svMsg.m.fields[n].length < OwnFields[n].MinLength
    \/ svMsg.m.fields[n].length > OwnFields[n].MaxLength

\* C19, the variable kinds: a length error for a field of variable length
\* kind is reported only when the length is outside [minLength, maxLength],
\* and when a present field of variable kind has such a length validation
\* fails.
C19_VariableLengthRange ==
    /\ (/\ ValidatedOwn /\ svRes.err.Rule = "length"
        /\ PresentOfKind(svRes.err.Field, FALSE))
           => OutsideRange(svRes.err.Field)
    /\ (ValidatedOwn /\ \E n \in 1..MaxFieldNumber :
                            PresentOfKind(n, FALSE) /\ OutsideRange(n))
           => svRes.err # NoValidationError

\* C19: for every FIXED field the compiled validator carries an exact-length
\* rule, so validation fails when a present FIXED field has a length other
\* than maxLength; for the variable kinds only lengths outside
\* [minLength, maxLength] fail.
C19_FixedIsExactLength ==
    /\ C19_VariableLengthRange
    /\ (ValidatedOwn /\ \E n \in 1..MaxFieldNumber :
                            /\ PresentOfKind(n, TRUE)
                            /\ svMsg.m.fields[n].length # OwnFields[n].MaxLength)
           => svRes.err # NoValidationError

PresentOfType(n, type) ==
    /\ n \in DOMAIN OwnFields
    /\ isFieldPresent(svMsg.m, n)
    /\ OwnFields[n].Type = type

AllDigits(n) ==
    \A i \in 1..Len(Field_Bytes(svMsg.m.fields[n])) :
        isDigit(Field_Bytes(svMsg.m.fields[n])[i])

AllPrintable(n) ==
    \A i \in 1..Len(Field_Bytes(svMsg.m.fields[n])) :
        /\ Field_Bytes(svMsg.m.fields[n])[i] >= 32
        /\ Field_Bytes(svMsg.m.fields[n])[i] <= 126

\* C20, the rejections: a NUMERIC field with a byte outside '0'..'9' fails
\* validation, and no charset error is ever reported for a BINARY field.
C20_CharsetRejections ==
    /\ (ValidatedOwn /\ \E n \in 1..MaxFieldNumber :
                                PresentOfType(n, FieldTypeN) /\ ~AllDigits(n))
           => svRes.err # NoValidationError
    /\ ValidatedOwn => svRes.err.Rule # "binary"

\* C20: the charset rule follows the FieldType: NUMERIC passes exactly when
\* every byte is in '0'..'9' (leading zeros pass), ANS passes for any
\* printable ASCII, BINARY passes for any bytes.
C20_CharsetFollowsType ==
    /\ C20_CharsetRejections
    /\ (/\ ValidatedOwn /\ svRes.err.Rule = "numeric"
        /\ PresentOfType(svRes.err.Field, FieldTypeN))
           => ~AllDigits(svRes.err.Field)
    /\ (/\ ValidatedOwn /\ svRes.err.Rule = "alphanumeric"
        /\ PresentOfType(svRes.err.Field, FieldTypeANS))
           => ~AllPrintable(svRes.err.Field)

-----------------------------------------------------------------------------
(* C21, C22, C23: TLV.                                                     *)

\* the (tag, value) pairs of a list of elements
TagsAndValues(tlvs) ==
    [i \in 1..Len(tlvs) |-> [tag |-> tlvs[i].Tag, value |-> tlvs[i].Value]]

\* the BER element that starts at offset o of d: where its tag ends, where
\* its value starts, its length; -1 where the bytes do not hold one.  A
\* length of 4 bytes whose first byte is not 0 is longer than every buffer.
BERTagEnd(d, o) ==
    IF d[o + 1] % 32 # 31 THEN o + 1
    ELSE IF \A j \in (o + 1)..(Len(d) - 1) : d[j + 1] >= 128 THEN -1
    ELSE 1 + CHOOSE j \in (o + 1)..(Len(d) - 1) :
                 /\ d[j + 1] < 128
                 /\ \A k \in (o + 1)..(j - 1) : d[k + 1] >= 128

BERLengthBytes(d, t) ==
    IF t < 0 \/ t >= Len(d) THEN -1
    ELSE IF d[t + 1] < 128 THEN 0
    ELSE IF d[t + 1] % 128 \in 1..4 /\ t + 1 + (d[t + 1] % 128) <= Len(d)
    THEN d[t + 1] % 128
    ELSE -1

BERLength(d, t) ==
    LET n == BERLengthBytes(d, t)
    IN IF n < 0 THEN -1
       ELSE IF n = 0 THEN d[t + 1]
       ELSE IF n = 4 /\ d[t + 2] > 0 THEN Len(d) + 1
       ELSE bigEndianOf(Slice(d, t + 1, t + 1 + n))

\* the elements of d from offset o on, as the claim decodes them
RECURSIVE BERElements(_, _)
BERElements(d, o) ==
    IF o >= Len(d) THEN [ok |-> TRUE, elems |-> <<>>]
    ELSE LET t == BERTagEnd(d, o)
             n == BERLengthBytes(d, t)
             len == BERLength(d, t)
             v == t + 1 + n
         IN IF t < 0 \/ n < 0 \/ v + len > Len(d)
            THEN [ok |-> FALSE, elems |-> <<>>]
            ELSE LET rest == BERElements(d, v + len)
                 IN [ok |-> rest.ok,
                     elems |-> <<[tag |-> Slice(d, o, t),
                                  value |-> Slice(d, v, v + len)]>> \o rest.elems]

EMVParsed ==
    /\ tlvParser.tlvType = TLVEMV
    /\ tlvPc # "new"
    /\ tlvIn.from = "ParseTLV"

\* C21: in EMV mode ParseTLV decodes each element as tag (first byte,
\* extended when its low five bits are all 1 up to and including the first
\* following byte whose high bit is 0), length (the byte itself when its high
\* bit is 0, else the big-endian value of the next n = byte & 0x7F bytes,
\* 1 <= n <= 4) and value (that many bytes); it fails with ErrInvalidTLV when
\* n = 0, n > 4, or the tag, length or value is truncated; 9F 33 03 60 08 08
\* 5A 08 41 11 11 11 11 11 11 11 yields (9F33, 600808), (5A, 4111111111111111).
C21_EMVParse ==
    /\ EMVParsed =>
          LET e == BERElements(tlvIn.data, 0)
          IN /\ ~tlvIn.panic
             /\ e.ok => tlvIn.err = Nil /\ TagsAndValues(tlvIn.tlvs) = e.elems
             /\ ~e.ok => tlvIn.err = "ErrInvalidTLV"
             /\ \A i \in 1..Len(tlvIn.tlvs) :
                   tlvIn.tlvs[i].Length = Len(tlvIn.tlvs[i].Value)
    /\ (EMVParsed /\ tlvIn.data = EMVExample) =>
          TagsAndValues(tlvIn.tlvs) =
              <<[tag |-> <<159, 51>>, value |-> <<96, 8, 8>>],
                [tag |-> <<90>>, value |-> <<65, 17, 17, 17, 17, 17, 17, 17>>]>>

\* the example buffer has been parsed into its two elements
C21_Witness ==
    /\ EMVParsed /\ tlvIn.data = EMVExample
    /\ tlvIn.err = Nil /\ Len(tlvIn.tlvs) = 2

\* a long-form length of 3 bytes has been parsed
C21_WitnessLongForm ==
    /\ EMVParsed /\ tlvIn.data = <<90, 131, 0, 0, 1, 7>>
    /\ tlvIn.err = Nil /\ Len(tlvIn.tlvs) = 1

\* a well-formed BER tag: one byte whose low five bits are not all 1, or
\* such a byte with all of them 1, then bytes with the high bit 1, then one
\* byte with the high bit 0
WellFormedBERTag(tag) ==
    /\ Len(tag) >= 1
    /\ IF tag[1] % 32 # 31 THEN Len(tag) = 1
       ELSE /\ Len(tag) >= 2
            /\ tag[Len(tag)] < 128
            /\ \A i \in 2..(Len(tag) - 1) : tag[i] >= 128

\* the shortest BER encoding of the length n < 2^24
ShortestLength(n) ==
    IF n < 128 THEN <<n>>
    ELSE IF n < 256 THEN <<129, n>>
    ELSE IF n < 65536 THEN <<130, n \div 256, n % 256>>
    ELSE <<131, n \div 65536, (n \div 256) % 256, n % 256>>

\* tag, shortest length, value of each element, one after the other
RECURSIVE BEREncoding(_)
BEREncoding(tlvs) ==
    IF Len(tlvs) = 0 THEN <<>>
    ELSE Head(tlvs).Tag \o ShortestLength(Len(Head(tlvs).Value))
         \o Head(tlvs).Value \o BEREncoding(Tail(tlvs))

EMVPacked ==
    /\ tlvParser.tlvType = TLVEMV
    /\ tlvPc \in {"packed", "back"}
    /\ tlvOut.err = Nil

\* C22: in EMV mode PackTLV writes each element as its tag verbatim, the
\* shortest encoding of the length of its value (one byte up to 127, else
\* 0x80|n and n big-endian bytes: 500 is 82 01 F4) and the value; ParseTLV
\* of the bytes written returns the same (tag, value) sequence for every list
\* whose tags are well-formed BER tags.
C22_EMVPackRoundTrip ==
    /\ EMVPacked =>
          /\ tlvOut.out = BEREncoding(tlvIn.tlvs)
          /\ tlvOut.n = Len(tlvOut.out)
    /\ (EMVPacked /\ tlvIn.tlvs = <<TLV(<<31, 129, 1>>, 500, Repeat(255, 500))>>)
          => SubSeq(tlvOut.out, 1, 6) = <<31, 129, 1, 130, 1, 244>>
    /\ (/\ EMVPacked /\ tlvPc = "back"
        /\ \A i \in 1..Len(tlvIn.tlvs) : WellFormedBERTag(tlvIn.tlvs[i].Tag))
          => /\ tlvBack.err = Nil /\ ~tlvBack.panic
             /\ TagsAndValues(tlvBack.tlvs) = TagsAndValues(tlvIn.tlvs)

\* a list the caller built, with the value of 500 bytes and one of 128, has
\* been packed and parsed back
C22_Witness ==
    /\ EMVPacked /\ tlvPc = "back" /\ tlvIn.from = "caller"
    /\ tlvIn.tlvs = <<TLV(<<31, 129, 1>>, 500, Repeat(255, 500)),
                      TLV(<<159, 51>>, 128, Repeat(255, 128))>>
    /\ tlvBack.err = Nil /\ Len(tlvBack.tlvs) = 2

\* a list with a malformed tag has been packed and parses back differently
C22_WitnessMalformed ==
    /\ EMVPacked /\ tlvPc = "back"
    /\ \E i \in 1..Len(tlvIn.tlvs) : ~WellFormedBERTag(tlvIn.tlvs[i].Tag)
    /\ TagsAndValues(tlvBack.tlvs) # TagsAndValues(tlvIn.tlvs)

\* the digits of the base: '0'..'9', and 'A'..'F', 'a'..'f' in base 16
IsDigitOf(b, base) ==
    \/ b \in 48..57
    \/ base = 16 /\ b \in (65..70) \cup (97..102)

\* d from offset o on is a concatenation of tag, length digits and value
RECURSIVE IsASCIIConcat(_, _, _)
IsASCIIConcat(tp, d, o) ==
    IF o >= Len(d) THEN TRUE
    ELSE LET lenAt == o + tp.asciiTagLen
             valueAt == lenAt + tp.asciiLenLen
         IN /\ valueAt <= Len(d)
            /\ \A i \in (lenAt + 1)..valueAt : IsDigitOf(d[i], tp.asciiLengthBase)
            /\ LET n == digitsValue(Slice(d, lenAt, valueAt), tp.asciiLengthBase)
               IN valueAt + n <= Len(d) /\ IsASCIIConcat(tp, d, valueAt + n)

ASCIIParsed ==
    /\ tlvParser.tlvType = TLVASCII
    /\ tlvPc # "new"
    /\ tlvIn.from = "ParseTLV"

ASCIIPacked ==
    /\ tlvParser.tlvType = TLVASCII
    /\ tlvPc \in {"packed", "back"}

\* C23 (the part that holds): ParseTLV succeeds on every concatenation of
\* tag, length digits and value; PackTLV rejects a tag whose length is not
\* tagChars and a value longer than base^lenChars - 1; "AL04DATA" parses to
\* {AL, DATA}, which packs to "AL04DATA".
C23_ASCIIDigits ==
    /\ (ASCIIParsed /\ IsASCIIConcat(tlvParser, tlvIn.data, 0))
          => tlvIn.err = Nil /\ ~tlvIn.panic
    /\ ASCIIPacked =>
          \A i \in 1..Len(tlvIn.tlvs) :
              (\/ Len(tlvIn.tlvs[i].Tag) # tlvParser.asciiTagLen
               \/ Len(tlvIn.tlvs[i].Value)
                     > pow(tlvParser.asciiLengthBase, tlvParser.asciiLenLen) - 1)
                 => tlvOut.err # Nil /\ tlvOut.n = 0
    /\ (/\ ASCIIParsed /\ tlvParser = NewASCIITLVParser(2, 2, 10)
        /\ tlvIn.data = <<65, 76, 48, 52, 68, 65, 84, 65>>) =>
          /\ TagsAndValues(tlvIn.tlvs) =
                <<[tag |-> <<65, 76>>, value |-> <<68, 65, 84, 65>>]>>
          /\ (tlvPc \in {"packed", "back"} /\ tlvOut.bufLen >= 8)
                => tlvOut.out = tlvIn.data

\* "AL04DATA" has been parsed and packed again
C23_WitnessExample ==
    /\ ASCIIParsed /\ tlvParser = NewASCIITLVParser(2, 2, 10)
    /\ tlvIn.data = <<65, 76, 48, 52, 68, 65, 84, 65>>
    /\ tlvPc = "packed" /\ tlvOut.err = Nil

\* C23: in the ASCII mode (tagChars, lenChars, base) ParseTLV succeeds only
\* on a concatenation of tag, lenChars digits of the base and value, so that
\* every parsed length is at least 0 and nothing is read outside the input;
\* PackTLV of the parsed elements reproduces the input; PackTLV rejects a tag
\* whose length is not tagChars and a value longer than base^lenChars - 1.
C23_ASCIIStrict ==
    /\ C23_ASCIIDigits
    /\ ASCIIParsed =>
          /\ ~tlvIn.panic
          /\ tlvIn.err = Nil => IsASCIIConcat(tlvParser, tlvIn.data, 0)
          /\ \A i \in 1..Len(tlvIn.tlvs) : tlvIn.tlvs[i].Length >= 0
    /\ (ASCIIParsed /\ tlvPc \in {"packed", "back"} /\ tlvOut.err = Nil)
          => tlvOut.out = tlvIn.data

-----------------------------------------------------------------------------
(* C24 .. C27, C29: the Message lifecycle.                                 *)

\* c has the MTI, the header, the present fields and the field bytes of m
SameContent(c, m) ==
    /\ c.mti = m.mti
    /\ c.header = m.header
    /\ Message_GetPresentFields(c) = Message_GetPresentFields(m)
    /\ \A n \in 1..MaxFieldNumber :
          isFieldPresent(m, n) =>
              Field_Bytes(c.fields[n]) = Field_Bytes(m.fields[n])

\* the fields whose data is a slice of bytes the caller handed in
SlicesOfCaller(bk) == {n \in DOMAIN bk : bk[n].buf # 0}

\* C24: Clone returns a Message with the MTI, the header, the present-field
\* set and the field bytes of the original; none of the field data of the
\* clone is a slice of the buffer given to Unpack or of a slice given to
\* SetField; and whatever is done afterwards to that buffer, to those slices
\* or to the original leaves the clone as it was.
C24_CloneIsDeepCopy ==
    [][/\ (~cloned /\ cloned') =>
              /\ SameContent(back'.m, msg)
              /\ SlicesOfCaller(cloneBacking') = {}
       /\ cloned => /\ back'.m = back.m
                    /\ cloneBacking' = cloneBacking]_vars

\* a buffer given to Unpack has been overwritten after Clone: a field of the
\* original reads as 'X', the same field of the clone as before
C24_Witness ==
    /\ cloned
    /\ \E n \in SlicesOfCaller(backing) :
          /\ isFieldPresent(back.m, n) /\ isFieldPresent(msg, n)
          /\ msg.fields[n].length > 0
          /\ Field_Bytes(msg.fields[n]) = Overwritten(Field_Bytes(msg.fields[n]))
          /\ Field_Bytes(back.m.fields[n]) # Field_Bytes(msg.fields[n])
          /\ Len(Field_Bytes(back.m.fields[n])) = msg.fields[n].length

\* the numbers of s are strictly increasing and none of them is 1
AscendingFromTwo(s) ==
    /\ \A i \in 1..Len(s) : s[i] # 1
    /\ \A i \in 1..(Len(s) - 1) : s[i] < s[i + 1]

\* C25 (the part that holds): BitmapManager.GetPresentFields of the bitmap of
\* the Message is strictly increasing without 1, Pack writes the fields in
\* strictly increasing order from field 2 on, and the fields Unpack takes
\* from a buffer lie in it in the order of their numbers.
C25_BitmapAndOrder ==
    /\ AscendingFromTwo(BitmapManager_GetPresentFields(msg.bitmap))
    /\ (pc = "packed" /\ packed.err.code = Nil) =>
          AscendingFromTwo([i \in 1..Len(packed.segs) |-> packed.segs[i].field])
    /\ \A n1, n2 \in DOMAIN backing :
          (/\ n1 < n2 /\ backing[n1].buf = Len(buffers)
           /\ backing[n2].buf = Len(buffers) /\ backing[n1].off > 0)
             => /\ n1 >= 2
                /\ backing[n1].off < backing[n2].off

\* C25: in every state reachable by SetField, ClearField and Unpack with
\* field numbers in 1..128, BitmapManager.GetPresentFields and
\* Message.GetPresentFields return strictly increasing numbers none of which
\* is 1, and Pack and Unpack process the fields in that order from field 2 on.
C25_NeverYieldsFieldOne ==
    /\ C25_BitmapAndOrder
    /\ (pc = "read" /\ got.op = "GetPresentFields") => AscendingFromTwo(got.value)

\* Pack of the Message has succeeded
Packed == pc = "packed" /\ packed.err.code = Nil

\* the ASCII-hex bitmap in the output of Pack: from the end of the MTI to the
\* first field written
PackedBitmap ==
    LET from == Len(msg.header) + 4
        to == IF Len(packed.segs) = 0 THEN Len(packed.out) ELSE packed.segs[1].at
    IN Slice(packed.out, from, to)

\* bit n of the bitmap in the output of Pack
PackedBit(n) ==
    /\ Len(PackedBitmap) >= ((n - 1) \div 4) + 1
    /\ TestBit(fromHexChar(PackedBitmap[((n - 1) \div 4) + 1]), 3 - ((n - 1) % 4))

\* the numbers of the fields written after the bitmap
EmittedFields == {packed.segs[i].field : i \in 1..Len(packed.segs)}

\* C26 (the part that holds): after SetField and SetFieldWithWidth with field
\* numbers 2..128 only on a new Message, the bitmap in the output of Pack has
\* bit n set exactly for the fields written, and bit 1 exactly when one of
\* them is in 65..128.
C26_BitmapOfSetFields ==
    (Packed /\ data = <<>> /\ ~isFieldPresent(msg, 1))
        => /\ \A n \in 2..MaxFieldNumber : PackedBit(n) <=> n \in EmittedFields
           /\ PackedBit(1) <=> \E n \in EmittedFields : n >= 65

\* C26: after any sequence of SetField, Unpack (including a second Unpack
\* into the same Message without Reset) and Reset, the bitmap bytes in the
\* output of Pack have bit n set, for n in 2..128, exactly for the fields
\* whose values are written after the bitmap, and bit 1 set exactly when one
\* of the fields 65..128 is written.
C26_BitmapOfPresentFields ==
    Packed => /\ \A n \in 2..MaxFieldNumber : PackedBit(n) <=> n \in EmittedFields
              /\ PackedBit(1) <=> \E n \in EmittedFields : n >= 65

\* the bitmap bit, the presence mask and the populated flag of field n of m
ViewsOf(m, n) ==
    <<IsFieldSet(m.bitmap, n), isFieldPresent(m, n), m.fields[n].parsed>>

\* the three views of every field 2..128 of m say the same
ViewsAgree(m) ==
    \A n \in 2..MaxFieldNumber :
        ViewsOf(m, n) \in {<<TRUE, TRUE, TRUE>>, <<FALSE, FALSE, FALSE>>}

\* C27 (the part that holds): the presence mask contains n exactly when
\* field n holds a populated value, in the Message and in its clone; and the
\* bitmap agrees with both in the clone, and in a Message that Unpack has not
\* been called on.
C27_PresenceAndValue ==
    /\ \A n \in 1..MaxFieldNumber :
          /\ isFieldPresent(msg, n) <=> msg.fields[n].parsed
          /\ cloned => (isFieldPresent(back.m, n) <=> back.m.fields[n].parsed)
    /\ cloned => ViewsAgree(back.m)
    /\ data = <<>> => ViewsAgree(msg)

\* Unpack has not been called, fields are set and the clone is taken
C27_WitnessSetFields ==
    /\ cloned /\ data = <<>>
    /\ ViewsOf(msg, 3) = <<TRUE, TRUE, TRUE>>
    /\ ViewsOf(back.m, 66) = <<TRUE, TRUE, TRUE>>

\* C27: in every state reachable by SetField, Unpack (successful or failed),
\* Clone and Reset, for every n in 2..128, the bitmap bit n is set exactly
\* when the presence mask contains n and exactly when field n holds a
\* populated value, in the Message and in its clone.
C27_ThreeViewsAgree ==
    /\ ViewsAgree(msg)
    /\ cloned => ViewsAgree(back.m)

\* msg.SetField(n, v) or msg.SetFieldWithWidth(n, v, w) with an integer v
\* is the step taken, for one of the inputs of the scenario
SetsInt(n) ==
    \/ \E in \in LcSetInputs :
          in[1] = n /\ in[2].kind = "int" /\ LcSetField(in[1], in[2])
    \/ \E in \in LcWidthInputs :
          in[1] = n /\ in[2].kind = "int" /\ LcSetFieldWithWidth(in[1], in[2], in[3])

\* the step leaves the bytes of every present field but n as they were
OtherFieldsKept(n) ==
    \A k \in 1..MaxFieldNumber :
        (k # n /\ isFieldPresent(msg, k)) =>
            Field_Bytes(msg'.fields[k]) = Field_Bytes(msg.fields[k])

\* C29 (the part that holds): SetField(n, int) and SetFieldWithWidth(n, int,
\* w) on a field whose data is not a slice of a buffer given to Unpack leave
\* every byte of the caller's buffers and every other present field unchanged.
C29_OwnStorageIsolated ==
    [][\A n \in {3, 66} :
          (SetsInt(n) /\ backingOf(backing, n).buf = 0) =>
              /\ buffers' = buffers
              /\ OtherFieldsKept(n)]_vars

\* an integer is stored in field 66 of a Message that holds the fields of
\* an unpacked buffer which did not carry field 66: the buffer is as it
\* was handed in
C29_WitnessOwnStorage ==
    /\ data # <<>> /\ buffers = <<data>> /\ msg.fullMessage = data
    /\ isFieldPresent(msg, 4)
    /\ isFieldPresent(msg, 66) /\ backingOf(backing, 66).buf = 0
    /\ Field_Bytes(msg.fields[66]) = <<55>>

\* C29: after Unpack(B), SetField(n, int) and SetFieldWithWidth(n, int, w)
\* leave every byte of B and every other present field unchanged.
C29_SetIntLeavesBuffer ==
    [][\A n \in {3, 66} :
          (SetsInt(n) /\ data # <<>>) =>
              /\ buffers' = buffers
              /\ OtherFieldsKept(n)]_vars

-----------------------------------------------------------------------------
(* C28, C30: ProcessBatch and the errors it hands back.                    *)

\* Unpack of input i of the batch into a new Message of the packager
Decoded(i) ==
    Unpack(NewMessage(PbPackager, <<>>, ValidationNone), batch.dataSlice[i])

\* ProcessBatch has returned a result list
ReturnedList == batch.pc = "returned" /\ ~batch.ret.isNil

\* C28: when ProcessBatch returns a result list, whatever the interleaving
\* of its goroutines and whatever the concurrency >= 1, the list has one slot
\* per input buffer; slot i holds the Message decoded from input i, a Message
\* of its own that is not in the pool, or is empty when that decode failed;
\* and the error returned is non-nil exactly when some decode failed.
C28_PositionalCorrespondence ==
    ReturnedList =>
        /\ Len(batch.ret.results) = Len(batch.dataSlice)
        /\ \A i \in 1..Len(batch.dataSlice) :
              IF Decoded(i).err.code # Nil
              THEN batch.ret.results[i] = 0
              ELSE /\ batch.ret.results[i] \in 1..Len(messages)
                   /\ messages[batch.ret.results[i]] = Decoded(i).m
                   /\ batch.ret.results[i] \notin messagePool
                   /\ \A j \in 1..Len(batch.dataSlice) :
                         j # i => batch.ret.results[j] # batch.ret.results[i]
        /\ (batch.ret.err # NilError)
               <=> \E i \in 1..Len(batch.dataSlice) : Decoded(i).err.code # Nil

\* a batch of two on two goroutines has returned a list with an empty first
\* slot and, in the second, the Message the failed goroutine released
C28_Witness ==
    /\ ReturnedList
    /\ batch.concurrency = 2
    /\ Len(batch.dataSlice) = 2
    /\ batch.ret.results[1] = 0
    /\ batch.ret.results[2] # 0
    /\ errors[1].obj = batch.ret.results[2]

\* what the error value e reports when it is read now
Reports(e) ==
    IF e.obj = 0 THEN [Field |-> e.field, Err |-> e.code]
    ELSE messages[e.obj].lastError

\* the error value e reports the field and the cause it was returned with
ReportsOriginal(e) == Reports(e) = [Field |-> e.field, Err |-> e.code]

\* C30 (the part that holds): the error Unpack returned reports the failing
\* field and its cause until the goroutine releases the Message, and an
\* error that names no field keeps its cause.
C30_ErrorUntilRelease ==
    \A i \in 1..Len(errors) :
        (errors[i].obj = 0 \/ workers[i].pc = "release") => ReportsOriginal(errors[i])

\* a goroutine holds the error of a field of its Message, not yet released
C30_WitnessHeld ==
    \E i \in 1..Len(errors) :
        /\ errors[i].obj # 0 /\ errors[i].field = 4
        /\ workers[i].pc = "release"

\* C30: the error returned for a field-level decode failure, and the one
\* ProcessBatch hands back after the failed Message is released to the pool,
\* still reports field n and the original cause after Release and after a
\* later Unpack on the same pooled Message by another goroutine.
C30_ErrorKeepsField ==
    /\ \A i \in 1..Len(errors) : ReportsOriginal(errors[i])
    /\ batch.pc = "returned" => ReportsOriginal(batch.ret.err)

====
